---- MODULE Spec2Model ----
(***************************************************************************)
(* State-machine model of the live quiz server (src/server.js): the access *)
(* token registry, the session roster, the game phase controller with its  *)
(* two setInterval countdowns, the scoring / leaderboard engine and the     *)
(* socket.io fan-out.                                                       *)
(*                                                                         *)
(* The clock counts units of 1/resolution seconds; resolution is fixed by   *)
(* the initial state.  Scores are kept in the same unit (a score of 8       *)
(* points is 8 * resolution).                                               *)
(***************************************************************************)
EXTENDS Integers, Sequences, FiniteSets, TLC

(***************************************************************************)
(* Program constants                                                       *)
(***************************************************************************)
AdminEmail == "hugues.journeau@databricks.com"
CorrectAnswer == "echantons"
PhotoDuration == 10
QuestionDuration == 10
MaxScore == 10
\* waitForGenieResponse(..., maxAttempts = 20, delayMs = 3000)
maxAttempts == 20

\* JavaScript null, for the string-valued and for the number-valued fields
Null == "null"
NoTime == -1
\* a timer handle whose interval was cleared: clearInterval on it does nothing
DeadHandle == 0

(***************************************************************************)
(* Bounds of the model                                                     *)
(***************************************************************************)
\* Date.now() when the server starts, in seconds
Epoch == 10
\* the clock stops advancing Horizon seconds after Epoch
Horizon == 22
\* socket ids are 1..MaxSockets; an id is never used again after disconnect
MaxSockets == 2
\* at most MaxConnected sockets are connected at a time
MaxConnected == 1
\* the same two bounds in QuestionSpec and in SessionSpec
QuestionSockets == 3
QuestionConnected == 2
SessionSockets == 2
SessionConnected == 1
\* at most MaxTimers setInterval timers are live at a time
MaxTimers == 2
\* start-game, reset-game and new-game are accepted MaxAdminOps times in all
MaxAdminOps == 3
\* and GameAdminOps times in the specifications that play a whole game
GameAdminOps == 2
\* no cumulative score grows beyond this many points
MaxTotalScore == 20

(***************************************************************************)
(* Input domains                                                           *)
(***************************************************************************)
Tokens == {"111111", "222222"}
TempTokens == {"900001"}
\* what the Databricks query does: a row is found, none is found, the
\* workspace is not configured / unreachable, or another error is thrown
DbOutcomes == {"found", "notfound", "unconfigured", "error"}
PlayerEmails == {"paul.r@dbks.fr", "marc.bonnet@databricks.com"}
Names == {AdminEmail} \cup PlayerEmails
\* a right answer, a wrong one (the case differs) and the empty string
Answers == {CorrectAnswer, "Echantons", ""}
\* mockEmployeeDatabase
MockEmails == {AdminEmail, "paul.r@dbks.fr"}
mockEmployeeDatabase(email) ==
    IF email = AdminEmail THEN "janvier 2020" ELSE "septembre 2023"
MonthYears == {"janvier 2020", "septembre 2023"}
Phases == {"waiting", "photos", "question", "leaderboard"}
\* socket ids any specification hands out
SocketIds == MaxSockets + QuestionSockets + SessionSockets

VARIABLES
    activeTokens,       \* Set of valid session tokens
    tempUserStore,      \* global.tempUserStore: temp token -> email (or Null)
    pendingToken,       \* /api/token requests awaiting the employee lookup
    isStarted,          \* gameState.isStarted
    currentPhase,       \* gameState.currentPhase
    currentQuestion,    \* gameState.currentQuestion
    photoTimeLeft,      \* gameState.photoTimeLeft
    questionTimeLeft,   \* gameState.questionTimeLeft
    players,            \* gameState.players: Map in insertion order
    leaderboard,        \* gameState.leaderboard
    questionStartTime,  \* gameState.questionStartTime
    questionEndTime,    \* gameState.questionEndTime
    photoTimer,         \* photoTimer: NoTime (null), a live id, or DeadHandle
    questionTimer,      \* questionTimer: likewise
    intervals,          \* the live setInterval timers: [id, kind, left]
    now,                \* Date.now()
    sockets,            \* ids of the connected sockets
    nextSocket,         \* id the next connection gets
    rooms,              \* socket id -> rooms it has joined
    pendingNewGame,     \* new-game handlers awaiting clearGameScores
    pendingChat,        \* chatbot handlers awaiting the Genie API
    pendingSave,        \* gameIds of the saveQuizResults calls in flight
    emitted,            \* events sent by the last step, in order
    resolution,         \* clock units per second
    adminOps,           \* accepted start-game, reset-game and new-game calls
    revokedTokens,      \* tokens the last reset cleared and nobody got since
    lastOp,             \* the event or request the last step handled
    questionScoring     \* "none": no question started since the reset;
                        \* "open": started, endQuestion has not run;
                        \* "scored": it ran once; "rescored": more than once

gameState == <<isStarted, currentPhase, currentQuestion, photoTimeLeft,
               questionTimeLeft, players, leaderboard, questionStartTime,
               questionEndTime>>
timerVars == <<photoTimer, questionTimer, intervals>>
httpVars == <<tempUserStore, pendingToken, pendingChat, pendingSave>>
boundVars == <<resolution, adminOps>>
ghostVars == <<boundVars, revokedTokens>>
connVars == <<sockets, nextSocket, rooms>>
vars == <<activeTokens, tempUserStore, pendingToken, isStarted, currentPhase,
          currentQuestion, photoTimeLeft, questionTimeLeft, players,
          leaderboard, questionStartTime, questionEndTime, photoTimer,
          questionTimer, intervals, now, sockets, nextSocket, rooms,
          pendingNewGame, pendingChat, pendingSave, emitted, resolution,
          adminOps,
          revokedTokens, lastOp, questionScoring>>

(***************************************************************************)
(* Helpers                                                                 *)
(***************************************************************************)
Max(a, b) == IF a >= b THEN a ELSE b
Min(a, b) == IF a <= b THEN a ELSE b

\* a handled event: its name, the socket it came from, the token it carried
\* (for submit-answer: the answer) and the identity it named
Op(op, socket, token, name) ==
    [op |-> op, socket |-> socket, token |-> token, name |-> name]

\* audiences of an emit
ToRoom(r) == <<"room", r>>
ToAll == <<"all">>
ToSocket(s) == <<"socket", s>>

\* the sockets an emit reaches, given the connections and room memberships
Recipients(to, socks, rms) ==
    IF to[1] = "all" THEN socks
    ELSE IF to[1] = "room" THEN {s \in socks : to[2] \in rms[s]}
    ELSE {s \in socks : s = to[2]}

Emit(ev, to, data, socks, rms) ==
    [ev |-> ev, to |-> to, rcpt |-> Recipients(to, socks, rms), data |-> data]

\* io.to('admin').emit(ev, data); io.to('waiting-room').emit(ev, data)
EmitAdminThenWaiting(ev, data, socks, rms) ==
    << Emit(ev, ToRoom("admin"), data, socks, rms),
       Emit(ev, ToRoom("waiting-room"), data, socks, rms) >>

EmitWaitingThenAdmin(ev, data, socks, rms) ==
    << Emit(ev, ToRoom("waiting-room"), data, socks, rms),
       Emit(ev, ToRoom("admin"), data, socks, rms) >>

\* a faulty lookup that falls back on the first roster entry
FindByNameOrFirst(ps, name) ==
    IF \E i \in 1..Len(ps) : ps[i].name = name
    THEN CHOOSE i \in 1..Len(ps) :
            /\ ps[i].name = name
            /\ \A j \in 1..(i - 1) : ps[j].name # name
    ELSE IF Len(ps) > 0 THEN 1 ELSE 0

\* index of the first roster entry with this name, 0 when there is none
FindByName(ps, name) ==
    IF \E i \in 1..Len(ps) : ps[i].name = name
    THEN CHOOSE i \in 1..Len(ps) :
            /\ ps[i].name = name
            /\ \A j \in 1..(i - 1) : ps[j].name # name
    ELSE 0

\* a faulty lookup that falls back on the first roster entry
FindBySocketOrFirst(ps, s) ==
    IF \E i \in 1..Len(ps) : ps[i].socketId = s
    THEN CHOOSE i \in 1..Len(ps) :
            /\ ps[i].socketId = s
            /\ \A j \in 1..(i - 1) : ps[j].socketId # s
    ELSE IF Len(ps) > 0 THEN 1 ELSE 0

\* index of the first roster entry whose socketId is s, 0 when there is none
FindBySocket(ps, s) ==
    IF \E i \in 1..Len(ps) : ps[i].socketId = s
    THEN CHOOSE i \in 1..Len(ps) :
            /\ ps[i].socketId = s
            /\ \A j \in 1..(i - 1) : ps[j].socketId # s
    ELSE 0

\* Map.set: an existing key keeps its place, a new key goes last
MapSet(ps, key, rec) ==
    IF FindByName(ps, key) # 0
    THEN [ps EXCEPT ![FindByName(ps, key)] = rec]
    ELSE Append(ps, rec)

PlayerNames(ps) == [i \in 1..Len(ps) |-> ps[i].name]

RECURSIVE ConnectedNames(_)
ConnectedNames(ps) ==
    IF ps = << >> THEN << >>
    ELSE IF Head(ps).isConnected
         THEN <<Head(ps).name>> \o ConnectedNames(Tail(ps))
         ELSE ConnectedNames(Tail(ps))

\* activeTokens.has(token)
HasToken(token) == token \in activeTokens

\* a faulty admin check that looks at the identity only: C6 must notice it
IsAdminCallByIdentity(token, playerEmail) == playerEmail = AdminEmail

\* activeTokens.has(token) && playerEmail === 'hugues.journeau@databricks.com'
IsAdminCall(token, playerEmail) == HasToken(token) /\ playerEmail = AdminEmail

\* a number in arithmetic: null counts as 0
Num(t) == IF t = NoTime THEN 0 ELSE t

(***************************************************************************)
(* Initial state                                                           *)
(***************************************************************************)
InitWith(res) ==
    /\ resolution = res
    /\ adminOps = 0
    /\ revokedTokens = {}
    /\ activeTokens = {}
    /\ tempUserStore = [k \in TempTokens |-> Null]
    /\ pendingToken = {}
    /\ isStarted = FALSE
    /\ currentPhase = "waiting"
    /\ currentQuestion = 0
    /\ photoTimeLeft = PhotoDuration
    /\ questionTimeLeft = QuestionDuration
    /\ players = << >>
    /\ leaderboard = << >>
    /\ questionStartTime = NoTime
    /\ questionEndTime = NoTime
    /\ photoTimer = NoTime
    /\ questionTimer = NoTime
    /\ intervals = {}
    /\ now = Epoch * res
    /\ sockets = {}
    /\ nextSocket = 1
    /\ rooms = [s \in 1..SocketIds |-> {}]
    /\ pendingNewGame = {}
    /\ pendingChat = {}
    /\ pendingSave = {}
    /\ emitted = << >>
    /\ lastOp = Op("init", 0, Null, Null)
    /\ questionScoring = "none"

Init == InitWith(1)


(***************************************************************************)
(* HTTP endpoints                                                          *)
(***************************************************************************)
HttpResponse(status, data) ==
    << [ev |-> "http-response", to |-> <<"http">>, rcpt |-> {},
        data |-> [status |-> status, body |-> data]] >>

\* POST /api/validate-email
ApiValidateEmail(email, db, tempToken) ==
    /\ lastOp' = Op("api-validate-email", 0, tempToken, email)
    /\ IF \/ db = "found"
          \/ db \in {"notfound", "unconfigured"} /\ email \in MockEmails
       THEN /\ tempUserStore' = [tempUserStore EXCEPT ![tempToken] = email]
            /\ emitted' = HttpResponse(200, tempToken)
       ELSE /\ UNCHANGED tempUserStore
            /\ emitted' = HttpResponse(IF db = "error" THEN 500 ELSE 403, Null)
    /\ UNCHANGED <<ghostVars, activeTokens, pendingToken, gameState,
                   timerVars, now,
                   connVars, pendingNewGame, pendingChat, pendingSave,
                   questionScoring>>

\* validateWithMockDatabase
validateWithMockDatabase(email, monthYear) ==
    /\ email \in MockEmails
    /\ monthYear = mockEmployeeDatabase(email)

\* validateEmployeeStartMonthYear, given what the query does
validateEmployeeStartMonthYear(email, monthYear, db) ==
    CASE db = "found" -> TRUE
      [] db = "notfound" -> FALSE
      [] db = "unconfigured" -> validateWithMockDatabase(email, monthYear)
      [] OTHER -> FALSE

\* POST /api/token, up to the await of validateEmployeeStartMonthYear
ApiTokenBegin(tempToken, monthYear, maxPending) ==
    /\ lastOp' = Op("api-token", 0, tempToken, monthYear)
    /\ IF tempUserStore[tempToken] = Null
       THEN /\ emitted' = HttpResponse(400, Null)
            /\ UNCHANGED pendingToken
       ELSE /\ Cardinality(pendingToken) < maxPending
            /\ pendingToken' = pendingToken \cup
                 {[tempToken |-> tempToken, email |-> tempUserStore[tempToken],
                   monthYear |-> monthYear]}
            /\ emitted' = << >>
    /\ UNCHANGED <<ghostVars, activeTokens, tempUserStore, gameState,
                   timerVars, now,
                   connVars, pendingNewGame, pendingChat, pendingSave,
                   questionScoring>>

\* POST /api/token, after the await, were the token stored whatever the
\* validation answered
ApiTokenFinishAnyPeriod(req, db, token) ==
    /\ req \in pendingToken
    /\ pendingToken' = pendingToken \ {req}
    /\ lastOp' = Op("api-token-done", 0, req.tempToken, req.monthYear)
                    @@ [db |-> db]
    /\ activeTokens' = activeTokens \cup {token}
    /\ revokedTokens' = revokedTokens \ {token}
    /\ tempUserStore' = [tempUserStore EXCEPT ![req.tempToken] = Null]
    /\ emitted' = HttpResponse(200, token)
    /\ UNCHANGED <<boundVars, gameState, timerVars, now, connVars,
                   pendingNewGame, pendingChat, pendingSave, questionScoring>>

\* POST /api/token, after the await: the token is drawn and stored; the step
\* records what the Databricks query did
ApiTokenFinish(req, db, token) ==
    /\ req \in pendingToken
    /\ pendingToken' = pendingToken \ {req}
    /\ lastOp' = Op("api-token-done", 0, req.tempToken, req.monthYear)
                    @@ [db |-> db]
    /\ IF validateEmployeeStartMonthYear(req.email, req.monthYear, db)
       THEN /\ activeTokens' = activeTokens \cup {token}
            /\ revokedTokens' = revokedTokens \ {token}
            /\ tempUserStore' = [tempUserStore EXCEPT ![req.tempToken] = Null]
            /\ emitted' = HttpResponse(200, token)
       ELSE /\ UNCHANGED <<activeTokens, tempUserStore, revokedTokens>>
            /\ emitted' = HttpResponse(403, Null)
    /\ UNCHANGED <<boundVars, gameState, timerVars, now, connVars,
                   pendingNewGame, pendingChat, pendingSave, questionScoring>>

\* POST /api/verify
ApiVerify(token) ==
    /\ lastOp' = Op("api-verify", 0, token, Null)
    /\ emitted' = HttpResponse(IF HasToken(token) THEN 200 ELSE 401,
                               HasToken(token))
    /\ UNCHANGED <<ghostVars, activeTokens, httpVars, gameState, timerVars,
                   now,
                   connVars, pendingNewGame, questionScoring>>

(***************************************************************************)
(* Connections                                                             *)
(***************************************************************************)
\* io.on('connection')
Connect(maxSockets, maxConnected) ==
    /\ nextSocket <= maxSockets
    /\ Cardinality(sockets) < maxConnected
    /\ sockets' = sockets \cup {nextSocket}
    /\ nextSocket' = nextSocket + 1
    /\ rooms' = [rooms EXCEPT ![nextSocket] = {}]
    /\ lastOp' = Op("connection", nextSocket, Null, Null)
    /\ emitted' = << >>
    /\ UNCHANGED <<ghostVars, activeTokens, httpVars, gameState, timerVars,
                   now,
                   pendingNewGame, questionScoring>>

NewPlayer(playerName, s) ==
    [name |-> playerName, score |-> 0, currentAnswer |-> Null,
     answerTime |-> NoTime, isConnected |-> TRUE, socketId |-> s]

PlayerList(ps) == [playerCount |-> Len(ps), players |-> PlayerNames(ps)]

\* socket.on('join-waiting')
JoinWaiting(s, token, playerName) ==
    /\ s \in sockets
    /\ lastOp' = Op("join-waiting", s, token, playerName)
    /\ IF HasToken(token)
       THEN IF playerName = AdminEmail
            THEN /\ rooms' = [rooms EXCEPT ![s] = @ \cup {"admin"}]
                 /\ emitted' = << Emit("admin-joined", ToSocket(s), Null,
                                       sockets, rooms') >>
                 /\ UNCHANGED players
            ELSE /\ players' = MapSet(players, playerName,
                                      NewPlayer(playerName, s))
                 /\ rooms' = [rooms EXCEPT ![s] = @ \cup {"waiting-room"}]
                 /\ emitted' = EmitWaitingThenAdmin("player-joined",
                                   PlayerList(players'), sockets, rooms')
       ELSE /\ emitted' = << >>
            /\ UNCHANGED <<players, rooms>>
    /\ UNCHANGED <<ghostVars, activeTokens, httpVars, isStarted, currentPhase,
                   currentQuestion, photoTimeLeft, questionTimeLeft,
                   leaderboard, questionStartTime, questionEndTime, timerVars,
                   now, sockets, nextSocket, pendingNewGame, questionScoring>>

(***************************************************************************)
(* Timers                                                                  *)
(***************************************************************************)
LiveIds(ivs) == {iv.id : iv \in ivs}

\* the id setInterval returns
FreshId(ivs) == CHOOSE id \in 1..MaxTimers :
                    /\ id \notin LiveIds(ivs)
                    /\ \A j \in 1..(id - 1) : j \in LiveIds(ivs)

CanSetInterval(ivs) == \E id \in 1..MaxTimers : id \notin LiveIds(ivs)

\* setInterval(callback, 1000)
SetInterval(ivs, kind) ==
    ivs \cup {[id |-> FreshId(ivs), kind |-> kind, left |-> resolution]}

\* clearInterval(handle)
ClearInterval(ivs, handle) == {iv \in ivs : iv.id # handle}

\* a faulty timer that fires once only, as setTimeout does: C25 must notice
\* it
RearmNever(ivs, id) == {iv \in ivs : iv.id # id}

\* the interval that just fired is due again one period later
Rearm(ivs, id) ==
    {IF iv.id = id THEN [iv EXCEPT !.left = resolution] ELSE iv : iv \in ivs}

\* a handle as the program sees it once the timers are ivs
Handle(h, ivs) ==
    IF h = NoTime \/ h \in LiveIds(ivs) THEN h ELSE DeadHandle

(***************************************************************************)
(* Scoring and leaderboard (endQuestion)                                   *)
(***************************************************************************)
\* Math.max(0, 10 - player.answerTime)
ScoreFor(answerTime) == Max(0, MaxScore * resolution - answerTime)

\* a faulty scoring that ignores the case of the answer: C13 must notice it
ScoredPlayerAnyCase(p) ==
    [p EXCEPT !.score = IF p.currentAnswer \in {CorrectAnswer, "Echantons"}
                        THEN @ + ScoreFor(p.answerTime) ELSE @,
              !.currentAnswer = Null,
              !.answerTime = NoTime]

\* the first forEach of endQuestion, for one player
ScoredPlayer(p) ==
    [p EXCEPT !.score = IF p.currentAnswer = CorrectAnswer
                        THEN @ + ScoreFor(p.answerTime) ELSE @,
              !.currentAnswer = Null,
              !.answerTime = NoTime]

ScoredPlayers(ps) == [i \in 1..Len(ps) |-> ScoredPlayer(ps[i])]

\* correctPlayers, in roster order
RECURSIVE CorrectPlayers(_)
CorrectPlayers(ps) ==
    IF ps = << >> THEN << >>
    ELSE IF Head(ps).currentAnswer = CorrectAnswer
         THEN << [name |-> Head(ps).name,
                  score |-> ScoredPlayer(Head(ps)).score,
                  answerTime |-> Head(ps).answerTime] >>
              \o CorrectPlayers(Tail(ps))
         ELSE CorrectPlayers(Tail(ps))

\* (a, b) => b.score - a.score
CompareScore(a, b) == b.score - a.score

\* a faulty comparator that never looks at the answer time: C14 must notice it
CompareLeaderboardByScore(a, b) == b.score - a.score

\* the comparator of the final sort
CompareLeaderboard(a, b) ==
    IF b.score # a.score THEN b.score - a.score
    ELSE IF a.answerTime # NoTime /\ b.answerTime # NoTime
         THEN a.answerTime - b.answerTime
         ELSE 0

Compare(a, b, final) ==
    IF final THEN CompareLeaderboard(a, b) ELSE CompareScore(a, b)

\* Array.prototype.sort on a short array: stable insertion sort
RECURSIVE Insert(_, _, _)
Insert(sorted, x, final) ==
    IF sorted = << >> THEN <<x>>
    ELSE IF Compare(sorted[Len(sorted)], x, final) > 0
         THEN Append(Insert(SubSeq(sorted, 1, Len(sorted) - 1), x, final),
                     sorted[Len(sorted)])
         ELSE Append(sorted, x)

RECURSIVE SortFrom(_, _, _)
SortFrom(sorted, rest, final) ==
    IF rest = << >> THEN sorted
    ELSE SortFrom(Insert(sorted, Head(rest), final), Tail(rest), final)

Sort(seq, final) == SortFrom(<< >>, seq, final)

\* a faulty test that finds nobody in the leaderboard
InLeaderboardNever(lb, name) == FALSE

\* leaderboard.find(p => p.name === name)
InLeaderboard(lb, name) == \E i \in 1..Len(lb) : lb[i].name = name

\* the time given to a connected player that is not among correctPlayers
TimeoutTime(p, qStart, qEnd) ==
    LET answerTime == IF (p.answerTime = NoTime \/ p.answerTime = 0)
                         /\ qEnd # NoTime /\ qEnd # 0
                      THEN Num(qEnd) - Num(qStart)
                      ELSE p.answerTime
    IN  IF answerTime = 0 THEN NoTime ELSE answerTime

\* a faulty second forEach that pushes nobody: C18 must notice it
AddConnectedNobody(lb, ps, qStart, qEnd) == lb

\* the second forEach: connected players not yet listed are pushed with score 0
RECURSIVE AddConnected(_, _, _, _)
AddConnected(lb, ps, qStart, qEnd) ==
    IF ps = << >> THEN lb
    ELSE IF Head(ps).isConnected /\ ~InLeaderboard(lb, Head(ps).name)
         THEN AddConnected(
                  Append(lb, [name |-> Head(ps).name, score |-> 0,
                              answerTime |->
                                  TimeoutTime(Head(ps), qStart, qEnd)]),
                  Tail(ps), qStart, qEnd)
         ELSE AddConnected(lb, Tail(ps), qStart, qEnd)

\* gameState.leaderboard when endQuestion returns
FinalLeaderboard(ps, qStart, qEnd) ==
    Sort(AddConnected(Sort(CorrectPlayers(ps), FALSE), ScoredPlayers(ps),
                      qStart, qEnd), TRUE)

\* findIndex(p => p.name === name) + 1
RankOf(lb, name) ==
    IF InLeaderboard(lb, name)
    THEN CHOOSE i \in 1..Len(lb) :
            /\ lb[i].name = name
            /\ \A j \in 1..(i - 1) : lb[j].name # name
    ELSE 0

\* find(p => p.name === name)?.score || 0
ScoreOf(lb, name) ==
    IF InLeaderboard(lb, name) THEN lb[RankOf(lb, name)].score ELSE 0

\* the player-game-ended unicasts, in roster order
RECURSIVE PlayerResults(_, _, _, _)
PlayerResults(ps, lb, socks, rms) ==
    IF ps = << >> THEN << >>
    ELSE IF Head(ps).isConnected /\ Head(ps).socketId \in socks
         THEN << Emit("player-game-ended", ToSocket(Head(ps).socketId),
                      [rank |-> RankOf(lb, Head(ps).name),
                       score |-> ScoreOf(lb, Head(ps).name),
                       totalPlayers |-> Len(lb)], socks, rms) >>
              \o PlayerResults(Tail(ps), lb, socks, rms)
         ELSE PlayerResults(Tail(ps), lb, socks, rms)

\* what endQuestion sends, in order
EndQuestionEvents(ps, lb, socks, rms) ==
    << [ev |-> "saveQuizResults", to |-> <<"sink">>, rcpt |-> {},
        data |-> [gameId |-> "espresso"]] >>
    \o << Emit("admin-game-ended", ToRoom("admin"), [leaderboard |-> lb],
               socks, rms),
          Emit("admin-game-ended-fallback", ToAll, [leaderboard |-> lb],
               socks, rms) >>
    \o PlayerResults(ps, lb, socks, rms)
    \o << Emit("player-game-ended-fallback", ToRoom("waiting-room"),
               [leaderboard |-> lb], socks, rms),
          Emit("player-game-ended-fallback", ToAll, [leaderboard |-> lb],
               socks, rms) >>

ScoringAfter(q) ==
    CASE q = "open" -> "scored"
      [] q = "scored" -> "rescored"
      [] OTHER -> q

\* endQuestion(), run on the roster ps with question end time qEnd; pre is
\* what the calling handler has sent before
EndQuestion(ps, qEnd, pre) ==
    /\ \A i \in 1..Len(ps) :
          ScoredPlayer(ps[i]).score <= MaxTotalScore * resolution
    /\ players' = ScoredPlayers(ps)
    /\ leaderboard' = FinalLeaderboard(ps, questionStartTime, qEnd)
    /\ currentPhase' = "leaderboard"
    /\ questionScoring' = ScoringAfter(questionScoring)
    /\ pendingSave' = pendingSave \cup {"espresso"}
    /\ emitted' = pre \o EndQuestionEvents(players', leaderboard', sockets,
                                           rooms)

\* a faulty completion that, when the sink has failed, takes the results
\* back: C23 must notice it
SaveQuizResultsDoneUndoing(ok, last) ==
    /\ "espresso" \in pendingSave
    /\ pendingSave' = IF last THEN {} ELSE pendingSave
    /\ lastOp' = Op("save-quiz-results-done", 0,
                    IF ok THEN "saved" ELSE "failed", Null)
    /\ emitted' = << >>
    /\ leaderboard' = IF ok THEN leaderboard ELSE << >>
    /\ currentPhase' = IF ok THEN currentPhase ELSE "question"
    /\ UNCHANGED <<ghostVars, activeTokens, tempUserStore, pendingToken,
                   pendingChat, isStarted, currentQuestion, photoTimeLeft,
                   questionTimeLeft, players, questionStartTime,
                   questionEndTime, timerVars, now, connVars, pendingNewGame,
                   questionScoring>>

\* a saveQuizResults call settles: true when every statement ran, false when
\* one threw; last tells whether no other call stays in flight
SaveQuizResultsDone(ok, last) ==
    /\ "espresso" \in pendingSave
    /\ pendingSave' = IF last THEN {} ELSE pendingSave
    /\ lastOp' = Op("save-quiz-results-done", 0,
                    IF ok THEN "saved" ELSE "failed", Null)
    /\ emitted' = << >>
    /\ UNCHANGED <<ghostVars, activeTokens, tempUserStore, pendingToken,
                   pendingChat, gameState, timerVars, now, connVars,
                   pendingNewGame, questionScoring>>

(***************************************************************************)
(* Game phase controller                                                   *)
(***************************************************************************)
TimerUpdate(phase, timeLeft) ==
    EmitAdminThenWaiting("timer-update",
                         [phase |-> phase, timeLeft |-> timeLeft],
                         sockets, rooms)

\* socket.on('start-game')
StartGame(s, token, playerEmail) ==
    /\ s \in sockets
    /\ lastOp' = Op("start-game", s, token, playerEmail)
    /\ IF IsAdminCall(token, playerEmail)
       THEN /\ CanSetInterval(intervals)
            /\ adminOps < MaxAdminOps
            /\ adminOps' = adminOps + 1
            /\ isStarted' = TRUE
            /\ currentPhase' = "photos"
            /\ currentQuestion' = 0
            /\ photoTimeLeft' = PhotoDuration
            /\ emitted' = EmitAdminThenWaiting("game-started",
                              [phase |-> "photos", question |-> 0],
                              sockets, rooms)
            /\ photoTimer' = FreshId(intervals)
            /\ intervals' = SetInterval(intervals, "photos")
       ELSE /\ emitted' = << Emit("start-game-error", ToSocket(s), Null,
                                  sockets, rooms) >>
            /\ UNCHANGED <<isStarted, currentPhase, currentQuestion,
                           photoTimeLeft, photoTimer, intervals, adminOps>>
    /\ UNCHANGED <<resolution, revokedTokens, activeTokens,
                   httpVars, questionTimeLeft,
                   players,
                   leaderboard, questionStartTime, questionEndTime,
                   questionTimer, now, connVars, pendingNewGame,
                   questionScoring>>

\* startQuestionPhase(), called by the photo interval id once the timers are
\* ivs; pre is what the callback has sent before
StartQuestionPhase(ivs, id, pre) ==
    /\ CanSetInterval(ivs)
    /\ currentPhase' = "question"
    /\ questionTimeLeft' = QuestionDuration
    /\ questionStartTime' = now
    /\ emitted' = pre \o EmitAdminThenWaiting("phase-changed",
                             [phase |-> "question",
                              question |-> currentQuestion], sockets, rooms)
    /\ questionTimer' = FreshId(ivs)
    /\ intervals' = SetInterval(Rearm(ivs, id), "question")
    /\ questionScoring' = "open"

\* the callback of a photo interval
PhotoTimerFires(id) ==
    /\ \E iv \in intervals : iv.id = id /\ iv.kind = "photos" /\ iv.left = 0
    /\ lastOp' = Op("photo-timer", 0, Null, Null)
    /\ photoTimeLeft' = photoTimeLeft - 1
    /\ IF photoTimeLeft' <= 0
       THEN /\ StartQuestionPhase(ClearInterval(intervals, photoTimer), id,
                                  TimerUpdate("photos", photoTimeLeft'))
            /\ photoTimer' = Handle(photoTimer,
                                    ClearInterval(intervals, photoTimer))
       ELSE /\ emitted' = TimerUpdate("photos", photoTimeLeft')
            /\ intervals' = Rearm(intervals, id)
            /\ UNCHANGED <<currentPhase, questionTimeLeft, questionStartTime,
                           questionTimer, photoTimer, questionScoring>>
    /\ UNCHANGED <<ghostVars, activeTokens, httpVars, isStarted,
                   currentQuestion,
                   players, leaderboard, questionEndTime, now, connVars,
                   pendingNewGame>>

\* the callback of a question interval
QuestionTimerFires(id) ==
    /\ \E iv \in intervals : iv.id = id /\ iv.kind = "question" /\ iv.left = 0
    /\ lastOp' = Op("question-timer", 0, Null, Null)
    /\ questionTimeLeft' = questionTimeLeft - 1
    /\ IF questionTimeLeft' <= 0
       THEN /\ intervals' = Rearm(ClearInterval(intervals, questionTimer), id)
            /\ questionTimer' = NoTime
            /\ questionEndTime' = now
            /\ EndQuestion(players, now,
                           TimerUpdate("question", questionTimeLeft'))
       ELSE /\ emitted' = TimerUpdate("question", questionTimeLeft')
            /\ intervals' = Rearm(intervals, id)
            /\ UNCHANGED <<currentPhase, players, leaderboard, questionTimer,
                           questionEndTime, questionScoring, pendingSave>>
    /\ UNCHANGED <<ghostVars, activeTokens, tempUserStore, pendingToken,
                   pendingChat, isStarted,
                   currentQuestion,
                   photoTimeLeft, questionStartTime, photoTimer, now,
                   connVars, pendingNewGame>>

\* !player.currentAnswer
NoAnswerYet(p) == p.currentAnswer = Null \/ p.currentAnswer = ""

\* a faulty check made on the roster as it was before the answer was
\* recorded: C8 must notice it
AllPlayersAnsweredBefore(ps) ==
    \A i \in 1..Len(players) : players[i].currentAnswer # Null

\* a faulty check that looks at the connected players only
AllPlayersAnsweredConnected(ps) ==
    \A i \in 1..Len(ps) : ps[i].isConnected => ps[i].currentAnswer # Null

\* players.every(p => p.currentAnswer !== null)
AllPlayersAnswered(ps) == \A i \in 1..Len(ps) : ps[i].currentAnswer # Null

\* Math.round(timeElapsed * 100) / 100 of (Date.now() - questionStartTime)
AnswerTime == now - Num(questionStartTime)

\* socket.on('submit-answer')
SubmitAnswer(s, answer, playerEmail) ==
    /\ s \in sockets
    /\ lastOp' = Op("submit-answer", s, answer, playerEmail)
    /\ LET i == FindByName(players, playerEmail) IN
       IF i # 0 /\ NoAnswerYet(players[i])
       THEN LET ps == [players EXCEPT ![i].currentAnswer = answer,
                                      ![i].answerTime = AnswerTime]
                sent == << Emit("answer-submitted", ToAll,
                                [playerId |-> s, playerName |-> playerEmail],
                                sockets, rooms) >>
            IN  IF AllPlayersAnswered(ps)
                THEN /\ questionEndTime' = now
                     /\ intervals' = ClearInterval(intervals, questionTimer)
                     /\ questionTimer' = NoTime
                     /\ EndQuestion(ps, now, sent)
                ELSE /\ players' = ps
                     /\ emitted' = sent
                     /\ UNCHANGED <<currentPhase, leaderboard, questionEndTime,
                                    questionTimer, intervals, questionScoring,
                                    pendingSave>>
       ELSE /\ emitted' = << >>
            /\ UNCHANGED <<currentPhase, players, leaderboard, questionEndTime,
                           questionTimer, intervals, questionScoring,
                           pendingSave>>
    /\ UNCHANGED <<ghostVars, activeTokens, tempUserStore, pendingToken,
                   pendingChat, isStarted,
                   currentQuestion,
                   photoTimeLeft, questionTimeLeft, questionStartTime,
                   photoTimer, now, connVars, pendingNewGame>>

\* a faulty reset that leaves activeTokens alone: C10 must notice it
ResetStateKeepingTokens ==
    /\ isStarted' = FALSE
    /\ currentPhase' = "waiting"
    /\ currentQuestion' = 0
    /\ photoTimeLeft' = PhotoDuration
    /\ questionTimeLeft' = QuestionDuration
    /\ players' = << >>
    /\ leaderboard' = << >>
    /\ revokedTokens' = revokedTokens \cup activeTokens
    /\ questionScoring' = "none"
    /\ emitted' = << Emit("game-reset", ToAll, Null, sockets, rooms) >>
    /\ UNCHANGED <<questionStartTime, questionEndTime, activeTokens>>

\* the assignments both reset handlers make to gameState and activeTokens
ResetState ==
    /\ isStarted' = FALSE
    /\ currentPhase' = "waiting"
    /\ currentQuestion' = 0
    /\ photoTimeLeft' = PhotoDuration
    /\ questionTimeLeft' = QuestionDuration
    /\ players' = << >>
    /\ leaderboard' = << >>
    /\ activeTokens' = {}
    /\ revokedTokens' = revokedTokens \cup activeTokens
    /\ questionScoring' = "none"
    /\ emitted' = << Emit("game-reset", ToAll, Null, sockets, rooms) >>
    /\ UNCHANGED <<questionStartTime, questionEndTime>>

\* socket.on('reset-game')
ResetGame(s) ==
    /\ s \in sockets
    /\ lastOp' = Op("reset-game", s, Null, Null)
    /\ adminOps < MaxAdminOps
    /\ adminOps' = adminOps + 1
    /\ ResetState
    /\ UNCHANGED <<resolution, httpVars, timerVars, now, connVars,
                   pendingNewGame>>

\* socket.on('new-game'), up to the await of clearGameScores
NewGameBegin(s, token, playerEmail) ==
    /\ s \in sockets
    /\ lastOp' = Op("new-game", s, token, playerEmail)
    /\ IF IsAdminCall(token, playerEmail)
       THEN /\ s \notin pendingNewGame
            /\ adminOps < MaxAdminOps
            /\ adminOps' = adminOps + 1
            /\ pendingNewGame' = pendingNewGame \cup {s}
            /\ emitted' = << [ev |-> "clearGameScores", to |-> <<"sink">>,
                              rcpt |-> {}, data |-> [gameId |-> "espresso"]] >>
       ELSE /\ emitted' = << Emit("new-game-error", ToSocket(s), Null,
                                  sockets, rooms) >>
            /\ UNCHANGED <<pendingNewGame, adminOps>>
    /\ UNCHANGED <<resolution, revokedTokens, activeTokens,
                   httpVars, gameState, timerVars,
                   now,
                   connVars, questionScoring>>

\* socket.on('new-game'), after clearGameScores has settled
NewGameFinish(s) ==
    /\ s \in pendingNewGame
    /\ pendingNewGame' = pendingNewGame \ {s}
    /\ lastOp' = Op("new-game-done", s, Null, Null)
    /\ ResetState
    /\ intervals' = ClearInterval(ClearInterval(intervals, photoTimer),
                                  questionTimer)
    /\ photoTimer' = NoTime
    /\ questionTimer' = NoTime
    /\ UNCHANGED <<boundVars, httpVars, now, connVars>>

(***************************************************************************)
(* Other socket events                                                     *)
(***************************************************************************)
\* socket.on('request-leaderboard')
RequestLeaderboard(s) ==
    /\ s \in sockets
    /\ lastOp' = Op("request-leaderboard", s, Null, Null)
    /\ emitted' = << Emit("leaderboard-update", ToSocket(s),
                          [leaderboard |-> leaderboard], sockets, rooms) >>
    /\ UNCHANGED <<ghostVars, activeTokens, httpVars, gameState, timerVars,
                   now,
                   connVars, pendingNewGame, questionScoring>>

\* socket.on('request-player-count')
RequestPlayerCount(s) ==
    /\ s \in sockets
    /\ lastOp' = Op("request-player-count", s, Null, Null)
    /\ emitted' = << Emit("player-count-update", ToSocket(s),
                          PlayerList(players), sockets, rooms) >>
    /\ UNCHANGED <<ghostVars, activeTokens, httpVars, gameState, timerVars,
                   now,
                   connVars, pendingNewGame, questionScoring>>

\* socket.on('rejoin-admin-room')
RejoinAdminRoom(s, token, playerName) ==
    /\ s \in sockets
    /\ lastOp' = Op("rejoin-admin-room", s, token, playerName)
    /\ rooms' = IF IsAdminCall(token, playerName)
                THEN [rooms EXCEPT ![s] = @ \cup {"admin"}] ELSE rooms
    /\ emitted' = << >>
    /\ UNCHANGED <<ghostVars, activeTokens, httpVars, gameState, timerVars,
                   now,
                   sockets, nextSocket, pendingNewGame, questionScoring>>

\* socket.on('rejoin-waiting-room')
RejoinWaitingRoom(s, token, playerName) ==
    /\ s \in sockets
    /\ lastOp' = Op("rejoin-waiting-room", s, token, playerName)
    /\ rooms' = IF HasToken(token)
                THEN [rooms EXCEPT ![s] = @ \cup {"waiting-room"}] ELSE rooms
    /\ emitted' = << >>
    /\ UNCHANGED <<ghostVars, activeTokens, httpVars, gameState, timerVars,
                   now,
                   sockets, nextSocket, pendingNewGame, questionScoring>>

\* socket.on('join-admin-direct')
JoinAdminDirect(s) ==
    /\ s \in sockets
    /\ lastOp' = Op("join-admin-direct", s, Null, Null)
    /\ rooms' = [rooms EXCEPT ![s] = @ \cup {"admin"}]
    /\ emitted' = << Emit("admin-joined", ToSocket(s), Null, sockets, rooms') >>
    /\ UNCHANGED <<ghostVars, activeTokens, httpVars, gameState, timerVars,
                   now,
                   sockets, nextSocket, pendingNewGame, questionScoring>>

(***************************************************************************)
(* Chatbot (Databricks Genie)                                              *)
(***************************************************************************)
\* a request sendGenieMessage or waitForGenieResponse posts to the Genie API
GenieRequest(api) ==
    [ev |-> "genie-request", to |-> <<"genie">>, rcpt |-> {},
     data |-> [api |-> api]]

\* socket.emit of a chatbot event; kind tells the messages apart
ChatEmit(ev, s, success, kind) ==
    Emit(ev, ToSocket(s), [success |-> success, kind |-> kind], sockets,
         rooms)

\* a faulty check that takes membership of any room: C20 must notice it
InSomeRoom(s) == rooms[s] # {}

\* socket.rooms.has('admin')
InAdminRoom(s) == "admin" \in rooms[s]

\* socket.on('start-chatbot'), up to the await of sendGenieMessage
StartChatbot(s) ==
    /\ s \in sockets
    /\ lastOp' = Op("start-chatbot", s, Null, Null)
    /\ IF InAdminRoom(s)
       THEN /\ [socket |-> s, op |-> "start-chatbot", stage |-> "send",
                   attempt |-> 0]
                  \notin pendingChat
            /\ pendingChat' = pendingChat \cup
                  {[socket |-> s, op |-> "start-chatbot", stage |-> "send",
                   attempt |-> 0]}
            /\ emitted' = << GenieRequest("start-conversation") >>
       ELSE /\ emitted' = << ChatEmit("chatbot-error", s, FALSE,
                                      "admin-only") >>
            /\ UNCHANGED pendingChat
    /\ UNCHANGED <<ghostVars, activeTokens, tempUserStore, pendingToken,
                   pendingSave, gameState, timerVars, now, connVars,
                   pendingNewGame, questionScoring>>

\* start-chatbot after the await: sendGenieMessage has returned or thrown
StartChatbotDone(req, ok) ==
    /\ req \in pendingChat
    /\ req.op = "start-chatbot"
    /\ pendingChat' = pendingChat \ {req}
    /\ lastOp' = Op("start-chatbot-done", req.socket, Null, Null)
    /\ emitted' = IF ok
                  THEN << ChatEmit("chatbot-started", req.socket, TRUE,
                                   "connected") >>
                  ELSE << ChatEmit("chatbot-error", req.socket, FALSE,
                                   "failed") >>
    /\ UNCHANGED <<ghostVars, activeTokens, tempUserStore, pendingToken,
                   pendingSave, gameState, timerVars, now, connVars,
                   pendingNewGame, questionScoring>>

\* socket.on('send-chatbot-message'), up to the await of sendGenieMessage
SendChatbotMessage(s) ==
    /\ s \in sockets
    /\ lastOp' = Op("send-chatbot-message", s, Null, Null)
    /\ IF InAdminRoom(s)
       THEN /\ \A req \in pendingChat :
                  ~(req.socket = s /\ req.op = "send-chatbot-message")
            /\ pendingChat' = pendingChat \cup
                  {[socket |-> s, op |-> "send-chatbot-message",
                    stage |-> "send", attempt |-> 0]}
            /\ emitted' = << GenieRequest("start-conversation") >>
       ELSE /\ emitted' = << ChatEmit("chatbot-error", s, FALSE,
                                      "admin-only") >>
            /\ UNCHANGED pendingChat
    /\ UNCHANGED <<ghostVars, activeTokens, tempUserStore, pendingToken,
                   pendingSave, gameState, timerVars, now, connVars,
                   pendingNewGame, questionScoring>>

\* send-chatbot-message after the first await: sendGenieMessage has thrown
\* ("error"), or has returned a response with the conversation and message
\* ids ("ids"), with the ids but no conversation object ("noconversation"),
\* or without the ids ("noids")
SendChatbotMessageSent(req, outcome) ==
    /\ req \in pendingChat
    /\ req.op = "send-chatbot-message"
    /\ req.stage = "send"
    /\ lastOp' = Op("send-chatbot-message-sent", req.socket, Null, Null)
    /\ LET ack == ChatEmit("chatbot-response", req.socket, TRUE, "submitted")
       IN  CASE outcome = "error" ->
                  /\ pendingChat' = pendingChat \ {req}
                  /\ emitted' = << ChatEmit("chatbot-response", req.socket,
                                            FALSE, "failed") >>
             [] outcome = "ids" ->
                  /\ pendingChat' = (pendingChat \ {req})
                                       \cup {[req EXCEPT !.stage = "test"]}
                  /\ emitted' = << ack, GenieRequest("get-space") >>
             [] outcome = "noconversation" ->
                  /\ pendingChat' = pendingChat \ {req}
                  /\ emitted' = << ack,
                                   ChatEmit("chatbot-response", req.socket,
                                            FALSE, "failed") >>
             [] OTHER ->
                  /\ pendingChat' = pendingChat \ {req}
                  /\ emitted' = << ack,
                                   ChatEmit("chatbot-response", req.socket,
                                            FALSE, "no-ids") >>
    /\ UNCHANGED <<ghostVars, activeTokens, tempUserStore, pendingToken,
                   pendingSave, gameState, timerVars, now, connVars,
                   pendingNewGame, questionScoring>>

\* what waitForGenieResponse returns is sent as a chatbot-response with
\* success true, and the handler is over
GenieAnswer(req, kind) ==
    /\ pendingChat' = pendingChat \ {req}
    /\ emitted' = << ChatEmit("chatbot-response", req.socket, TRUE, kind) >>

\* waitForGenieResponse after testGeniePermissions: the first poll is sent, or
\* the permission notice is returned
SendChatbotMessageTested(req, hasPermissions) ==
    /\ req \in pendingChat
    /\ req.op = "send-chatbot-message"
    /\ req.stage = "test"
    /\ lastOp' = Op("send-chatbot-message-tested", req.socket,
                    IF hasPermissions THEN "permitted" ELSE "denied", Null)
    /\ IF hasPermissions
       THEN /\ pendingChat' = (pendingChat \ {req})
                                 \cup {[req EXCEPT !.stage = "poll"]}
            /\ emitted' = << GenieRequest("get-message") >>
       ELSE GenieAnswer(req, "permission-test-failed")
    /\ UNCHANGED <<ghostVars, activeTokens, tempUserStore, pendingToken,
                   pendingSave, gameState, timerVars, now, connVars,
                   pendingNewGame, questionScoring>>

\* a faulty loop test that allows one poll more: C22 must notice it
MayPollAgainOnceMore(attempt) == attempt < maxAttempts

\* the loop goes on after this turn: attempt + 1 < maxAttempts
MayPollAgain(attempt) == attempt < maxAttempts - 1

\* one turn of the loop of waitForGenieResponse: getGenieMessageStatus has
\* returned a status or has thrown ("forbidden": with HTTP status 403), and
\* the function returns or, after delayMs, polls again
SendChatbotMessagePolled(req, outcome) ==
    /\ req \in pendingChat
    /\ req.op = "send-chatbot-message"
    /\ req.stage = "poll"
    /\ lastOp' = Op("send-chatbot-message-polled", req.socket, outcome, Null)
    /\ CASE outcome = "COMPLETED" -> GenieAnswer(req, "answer")
         [] outcome = "FAILED" -> GenieAnswer(req, "failed")
         [] outcome = "CANCELLED" -> GenieAnswer(req, "cancelled")
         [] outcome = "forbidden" -> GenieAnswer(req, "permission-error")
         [] OTHER ->
              IF MayPollAgain(req.attempt)
              THEN /\ pendingChat' = (pendingChat \ {req})
                                        \cup {[req EXCEPT !.attempt = @ + 1]}
                   /\ emitted' = << GenieRequest("get-message") >>
              ELSE GenieAnswer(req, "timeout")
    /\ UNCHANGED <<ghostVars, activeTokens, tempUserStore, pendingToken,
                   pendingSave, gameState, timerVars, now, connVars,
                   pendingNewGame, questionScoring>>

\* socket.on('disconnect'): the socket has left its rooms already
Disconnect(s) ==
    /\ s \in sockets
    /\ lastOp' = Op("disconnect", s, Null, Null)
    /\ sockets' = sockets \ {s}
    /\ rooms' = [rooms EXCEPT ![s] = {}]
    /\ LET i == FindBySocket(players, s) IN
       IF i # 0
       THEN /\ players' = [players EXCEPT ![i].isConnected = FALSE]
            /\ emitted' = EmitWaitingThenAdmin("player-left",
                              [playerCount |-> Len(players'),
                               players |-> ConnectedNames(players')],
                              sockets', rooms')
       ELSE /\ emitted' = << >>
            /\ UNCHANGED players
    /\ UNCHANGED <<ghostVars, activeTokens, httpVars, isStarted, currentPhase,
                   currentQuestion, photoTimeLeft, questionTimeLeft,
                   leaderboard, questionStartTime, questionEndTime, timerVars,
                   now, nextSocket, pendingNewGame, questionScoring>>

(***************************************************************************)
(* The clock                                                               *)
(***************************************************************************)
\* time passes; a due interval fires before the clock moves on.  With idle
\* FALSE the clock stands still while no interval is live.
AdvanceClock(idle) ==
    /\ now < (Epoch + Horizon) * resolution
    /\ idle \/ intervals # {}
    /\ \A iv \in intervals : iv.left > 0
    /\ now' = now + 1
    /\ intervals' = {[iv EXCEPT !.left = @ - 1] : iv \in intervals}
    /\ lastOp' = Op("clock", 0, Null, Null)
    /\ emitted' = << >>
    /\ UNCHANGED <<ghostVars, activeTokens, httpVars, gameState, photoTimer,
                   questionTimer, connVars, pendingNewGame, questionScoring>>

(***************************************************************************)
(* Specifications                                                          *)
(***************************************************************************)
\* the two HTTP steps that lead to a session token; a new credential is asked
\* for while fewer than maxTokens session tokens are valid
HttpNext(emails, dbs, months, tokens, maxPending, maxTokens) ==
    \/ /\ Cardinality(activeTokens) < maxTokens
       /\ \E email \in emails, db \in dbs, k \in TempTokens :
             ApiValidateEmail(email, db, k)
    \/ /\ Cardinality(activeTokens) < maxTokens
       /\ \E k \in TempTokens, m \in months : ApiTokenBegin(k, m, maxPending)
    \/ \E req \in pendingToken, db \in dbs, t \in tokens :
          ApiTokenFinish(req, db, t)

\* the game: joins, the phase controller, its timers and the clock
GameNext(tokens, joinNames, names, answers, submitPhases) ==
    \/ Connect(MaxSockets, MaxConnected)
    \/ \E s \in sockets, t \in tokens, n \in joinNames : JoinWaiting(s, t, n)
    \/ \E s \in sockets, t \in tokens, n \in names :
          /\ IsAdminCall(t, n) => adminOps < GameAdminOps
          /\ StartGame(s, t, n)
    \/ \E id \in 1..MaxTimers : PhotoTimerFires(id)
    \/ \E id \in 1..MaxTimers : QuestionTimerFires(id)
    \/ /\ currentPhase \in submitPhases
       /\ \E s \in sockets, a \in answers, n \in names : SubmitAnswer(s, a, n)
    \/ /\ adminOps < GameAdminOps
       /\ \E s \in sockets : ResetGame(s)
    \/ \E s \in sockets, t \in tokens, n \in names :
          /\ IsAdminCall(t, n) => adminOps < GameAdminOps
          /\ NewGameBegin(s, t, n)
    \/ \E s \in sockets : NewGameFinish(s)
    \/ \E s \in sockets : Disconnect(s)
    \/ AdvanceClock(FALSE)

\* Spec: one session token, the admin and one player, every game event; the
\* player answers once a question has started
Next ==
    \/ HttpNext({AdminEmail}, {"found"}, {"janvier 2020"}, {"111111"}, 1, 1)
    \/ GameNext({"111111"}, {AdminEmail, "paul.r@dbks.fr"},
                {AdminEmail, "paul.r@dbks.fr"}, Answers,
                {"question", "leaderboard"})

Spec == Init /\ [][Next]_vars

\* QuestionSpec: a question has just started (the state Spec reaches when the
\* admin has started the game on socket 1 and left, and the photo countdown
\* has run out) and two players join, answer, leave and come back while it runs
QuestionInit ==
    /\ resolution = 1
    /\ adminOps = 1
    /\ revokedTokens = {}
    /\ activeTokens = {"111111"}
    /\ tempUserStore = [k \in TempTokens |-> Null]
    /\ pendingToken = {}
    /\ isStarted = TRUE
    /\ currentPhase = "question"
    /\ currentQuestion = 0
    /\ photoTimeLeft = 0
    /\ questionTimeLeft = QuestionDuration
    /\ players = << >>
    /\ leaderboard = << >>
    /\ questionStartTime = Epoch + PhotoDuration
    /\ questionEndTime = NoTime
    /\ photoTimer = DeadHandle
    /\ questionTimer = 1
    /\ intervals = {[id |-> 1, kind |-> "question", left |-> 1]}
    /\ now = Epoch + PhotoDuration
    /\ sockets = {}
    /\ nextSocket = 2
    /\ rooms = [s \in 1..SocketIds |-> {}]
    /\ pendingNewGame = {}
    /\ pendingChat = {}
    /\ pendingSave = {}
    /\ emitted = TimerUpdate("photos", 0)
                 \o EmitAdminThenWaiting("phase-changed",
                        [phase |-> "question", question |-> 0], sockets, rooms)
    /\ lastOp = Op("photo-timer", 0, Null, Null)
    /\ questionScoring = "open"

QuestionNext ==
    \/ Connect(QuestionSockets, QuestionConnected)
    \/ \E s \in sockets, n \in PlayerEmails : JoinWaiting(s, "111111", n)
    \/ /\ currentPhase = "question"
       /\ \E s \in sockets, a \in Answers, n \in PlayerEmails :
             SubmitAnswer(s, a, n)
    \/ \E id \in 1..MaxTimers : QuestionTimerFires(id)
    \/ \E s \in sockets : Disconnect(s)
    \/ AdvanceClock(FALSE)

QuestionSpec == QuestionInit /\ [][QuestionNext]_vars

\* QuestionSpec where time passes and an interval that is due fires
FairQuestionSpec ==
    /\ QuestionSpec
    /\ WF_vars(\E id \in 1..MaxTimers : QuestionTimerFires(id))
    /\ WF_vars(AdvanceClock(FALSE))

\* SessionSpec: the calls that check a session token, between token issuance
\* and the two resets, all within the first second after the start
SessionNames == {AdminEmail, "paul.r@dbks.fr"}

SessionNext ==
    \/ HttpNext({AdminEmail}, {"found"}, {"janvier 2020"}, Tokens, 1, 2)
    \/ \E t \in Tokens : ApiVerify(t)
    \/ Connect(SessionSockets, SessionConnected)
    \/ \E s \in sockets, t \in Tokens, n \in SessionNames :
          JoinWaiting(s, t, n)
    \/ \E s \in sockets, t \in Tokens, n \in SessionNames :
          RejoinAdminRoom(s, t, n)
    \/ \E s \in sockets, t \in Tokens, n \in SessionNames :
          RejoinWaitingRoom(s, t, n)
    \/ \E s \in sockets, t \in Tokens, n \in SessionNames :
          /\ IsAdminCall(t, n) => adminOps < GameAdminOps
          /\ StartGame(s, t, n)
    \/ \E s \in sockets, t \in Tokens, n \in SessionNames :
          /\ IsAdminCall(t, n) => adminOps < GameAdminOps
          /\ NewGameBegin(s, t, n)
    \/ /\ adminOps < GameAdminOps
       /\ \E s \in sockets : ResetGame(s)
    \/ \E s \in sockets : NewGameFinish(s)
    \/ \E s \in sockets : Disconnect(s)

SessionSpec == Init /\ [][SessionNext]_vars

\* ScoringSpec: a question is about to end.  Up to three players are in the
\* roster, each connected or not, with or without a recorded answer (at least
\* one without, or the question would have ended), with or without points
\* from an earlier scoring; the admin listens on socket 1 and player i on
\* socket i + 1.  They answer, or the countdown runs out.
ScoringRoster ==
    <<"paul.r@dbks.fr", "marc.bonnet@databricks.com", "lea.m@dbks.fr">>
\* when the question has started and how many seconds ago: one that is 8 or
\* 10 s old, its interval being due, and one that starts as the clock stops
ScoringInstants ==
    {[start |-> Epoch + PhotoDuration, elapsed |-> 8],
     [start |-> Epoch + PhotoDuration, elapsed |-> QuestionDuration],
     [start |-> Epoch + Horizon, elapsed |-> 0]}
\* latencies of the answers recorded before
ScoringLatencies == {0, 5, QuestionDuration}
ScoringScores == {0, 5}

ScoringPlayers(i, elapsed) ==
    {[name |-> ScoringRoster[i], score |-> sc, currentAnswer |-> a,
      answerTime |-> t, isConnected |-> c, socketId |-> i + 1] :
        sc \in ScoringScores, c \in BOOLEAN,
        a \in {CorrectAnswer, "Echantons"},
        t \in {l \in ScoringLatencies : l <= elapsed}}
    \cup {[name |-> ScoringRoster[i], score |-> sc, currentAnswer |-> Null,
           answerTime |-> NoTime, isConnected |-> c, socketId |-> i + 1] :
             sc \in ScoringScores, c \in BOOLEAN}

ScoringRosters(elapsed) ==
    {ps \in UNION {[1..n -> UNION {ScoringPlayers(i, elapsed) : i \in 1..n}] :
                      n \in 0..Len(ScoringRoster)} :
        /\ \A i \in 1..Len(ps) : ps[i].name = ScoringRoster[i]
        /\ ps = << >> \/ ~AllPlayersAnswered(ps)}

ScoringInit ==
    /\ resolution = 1
    /\ adminOps = 1
    /\ revokedTokens = {}
    /\ activeTokens = {"111111"}
    /\ tempUserStore = [k \in TempTokens |-> Null]
    /\ pendingToken = {}
    /\ isStarted = TRUE
    /\ currentPhase = "question"
    /\ currentQuestion = 0
    /\ photoTimeLeft = 0
    /\ questionEndTime = NoTime
    /\ \E at \in ScoringInstants :
          /\ questionStartTime = at.start
          /\ now = at.start + at.elapsed
          /\ questionTimeLeft = IF at.elapsed = 0 THEN QuestionDuration
                                ELSE QuestionDuration - at.elapsed + 1
          /\ intervals = {[id |-> 1, kind |-> "question",
                           left |-> IF at.elapsed = 0 THEN resolution ELSE 0]}
          /\ players \in ScoringRosters(at.elapsed)
    /\ leaderboard = << >>
    /\ photoTimer = DeadHandle
    /\ questionTimer = 1
    /\ sockets = {1} \cup {players[i].socketId : i \in
                               {j \in 1..Len(players) : players[j].isConnected}}
    /\ nextSocket = Len(ScoringRoster) + 2
    /\ rooms = [s \in 1..SocketIds |->
                   IF s = 1 THEN {"admin"}
                   ELSE IF s \in sockets THEN {"waiting-room"} ELSE {}]
    /\ pendingNewGame = {}
    /\ pendingChat = {}
    /\ pendingSave = {}
    /\ emitted = << >>
    /\ lastOp = Op("clock", 0, Null, Null)
    /\ questionScoring = "open"

ScoringNext ==
    \/ /\ currentPhase = "question"
       /\ \E i \in 1..Len(players), a \in Answers :
             /\ players[i].isConnected
             /\ SubmitAnswer(players[i].socketId, a, players[i].name)
    \/ \E id \in 1..MaxTimers : QuestionTimerFires(id)
    \/ AdvanceClock(FALSE)

ScoringSpec == ScoringInit /\ [][ScoringNext]_vars

\* ScenarioSpec: one whole game on a clock of half seconds, from the issue of
\* the session token on: the admin on socket 1 and two players on sockets 2
\* and 3 join before the game starts, the admin starts it once, and each
\* player answers during the question; once it has ended the clients ask for
\* the leaderboard and may reset the game, and the results sink answers at
\* any later time
HalfSeconds == 2
ScenarioSockets == 3
ScenarioIdentity(s) ==
    IF s = 1 THEN AdminEmail
    ELSE IF s = 2 THEN "paul.r@dbks.fr" ELSE "marc.bonnet@databricks.com"

ScenarioInit == InitWith(HalfSeconds)

ScenarioNext ==
    \/ HttpNext({AdminEmail}, {"found"}, {"janvier 2020"}, {"111111"}, 1, 1)
    \/ Connect(ScenarioSockets, ScenarioSockets)
    \/ /\ currentPhase = "waiting"
       /\ \E s \in sockets : JoinWaiting(s, "111111", ScenarioIdentity(s))
    \/ /\ ~isStarted
       /\ \E s \in sockets :
             /\ IsAdminCall("111111", ScenarioIdentity(s))
                   => adminOps < GameAdminOps
             /\ StartGame(s, "111111", ScenarioIdentity(s))
    \/ \E id \in 1..MaxTimers : PhotoTimerFires(id)
    \/ \E id \in 1..MaxTimers : QuestionTimerFires(id)
    \/ /\ currentPhase = "question"
       /\ \E s \in sockets, a \in {CorrectAnswer, "Echantons"} :
             SubmitAnswer(s, a, ScenarioIdentity(s))
    \/ /\ currentPhase = "leaderboard"
       /\ \E s \in sockets : RequestLeaderboard(s)
    \/ /\ currentPhase = "leaderboard"
       /\ adminOps < GameAdminOps
       /\ \E s \in sockets : ResetGame(s)
    \/ \E ok, last \in BOOLEAN : SaveQuizResultsDone(ok, last)
    \/ AdvanceClock(FALSE)

ScenarioSpec == ScenarioInit /\ [][ScenarioNext]_vars

\* ChatSpec: a session token is issued and three sockets connect, join as
\* admin or as a player, enter the admin room by join-admin-direct, call the
\* chatbot and leave, while the Genie API answers or fails; a poll of the
\* message status is answered at once
ChatSockets == 3
ChatConnected == 2
GenieOutcomes == {"ids", "noids", "noconversation", "error"}
\* what a poll of the message status gives: a status, or an error thrown
PollOutcomes ==
    {"PENDING", "COMPLETED", "FAILED", "CANCELLED", "error", "forbidden"}

ChatNext ==
    \/ HttpNext({AdminEmail}, {"found"}, {"janvier 2020"}, {"111111"}, 1, 1)
    \/ Connect(ChatSockets, ChatConnected)
    \/ \E s \in sockets, n \in SessionNames : JoinWaiting(s, "111111", n)
    \/ \E s \in sockets : JoinAdminDirect(s)
    \/ \E s \in sockets : StartChatbot(s)
    \/ \E req \in pendingChat, ok \in BOOLEAN : StartChatbotDone(req, ok)
    \/ \E s \in sockets : SendChatbotMessage(s)
    \/ \E req \in pendingChat, outcome \in GenieOutcomes :
          SendChatbotMessageSent(req, outcome)
    \/ \E req \in pendingChat, ok \in BOOLEAN :
          SendChatbotMessageTested(req, ok)
    \/ \E req \in pendingChat, outcome \in PollOutcomes \ {"PENDING", "error"} :
          SendChatbotMessagePolled(req, outcome)
    \/ \E s \in sockets : Disconnect(s)

ChatSpec == Init /\ [][ChatNext]_vars

\* PollSpec: two sockets enter the admin room and send chatbot messages; the
\* Genie API answers every request sooner or later, with any outcome
PollSockets == 2

\* the handler of socket s goes on after an await
ChatContinues(s) ==
    \E req \in pendingChat :
       /\ req.socket = s
       /\ \/ \E outcome \in GenieOutcomes : SendChatbotMessageSent(req, outcome)
          \/ \E ok \in BOOLEAN : SendChatbotMessageTested(req, ok)
          \/ \E outcome \in PollOutcomes : SendChatbotMessagePolled(req, outcome)

PollNext ==
    \/ Connect(PollSockets, PollSockets)
    \/ \E s \in sockets : JoinAdminDirect(s)
    \/ \E s \in sockets : SendChatbotMessage(s)
    \/ \E req \in pendingChat, outcome \in GenieOutcomes :
          SendChatbotMessageSent(req, outcome)
    \/ \E req \in pendingChat, ok \in BOOLEAN :
          SendChatbotMessageTested(req, ok)
    \/ \E req \in pendingChat, outcome \in PollOutcomes :
          SendChatbotMessagePolled(req, outcome)
    \/ \E s \in sockets : Disconnect(s)

PollSpec ==
    /\ Init
    /\ [][PollNext]_vars
    /\ \A s \in 1..PollSockets : WF_vars(ChatContinues(s))

\* NewGameSpec: a session token is issued, the admin and a player join, and
\* the admin starts the game, more than once too, and asks for a new game;
\* while clearGameScores is pending the timers run and the other events go on
NewGameNames == {AdminEmail, "paul.r@dbks.fr"}

NewGameNext ==
    \/ HttpNext({AdminEmail}, {"found"}, {"janvier 2020"}, {"111111"}, 1, 1)
    \/ Connect(MaxSockets, MaxSockets)
    \/ \E s \in sockets, n \in NewGameNames : JoinWaiting(s, "111111", n)
    \/ \E s \in sockets, n \in NewGameNames : StartGame(s, "111111", n)
    \/ \E s \in sockets, n \in NewGameNames : NewGameBegin(s, "111111", n)
    \/ \E s \in sockets : NewGameFinish(s)
    \/ \E id \in 1..MaxTimers : PhotoTimerFires(id)
    \/ \E id \in 1..MaxTimers : QuestionTimerFires(id)
    \/ AdvanceClock(FALSE)

NewGameSpec == Init /\ [][NewGameNext]_vars

\* TokenSpec: the two HTTP steps with every outcome of the Databricks query,
\* every period and two /api/token requests pending at a time, next to a
\* socket that joins and resets the game
TokenEmails == {AdminEmail, "paul.r@dbks.fr", "marc.bonnet@databricks.com"}

TokenNext ==
    \/ HttpNext(TokenEmails, DbOutcomes, MonthYears, Tokens, 2, 2)
    \/ \E t \in Tokens : ApiVerify(t)
    \/ Connect(1, 1)
    \/ \E s \in sockets, t \in Tokens : JoinWaiting(s, t, AdminEmail)
    \/ /\ adminOps < GameAdminOps
       /\ \E s \in sockets : ResetGame(s)

TokenSpec == Init /\ [][TokenNext]_vars

\* AnyPhaseSpec: one game in which the players send submit-answer whatever
\* the phase is: the admin on socket 1 and two players on sockets 2 and 3
\* join within the first second, the admin starts the game once, and the
\* countdowns run
AnyPhaseNext ==
    \/ HttpNext({AdminEmail}, {"found"}, {"janvier 2020"}, {"111111"}, 1, 1)
    \/ Connect(ScenarioSockets, ScenarioSockets)
    \/ /\ ~isStarted
       /\ \E s \in sockets : JoinWaiting(s, "111111", ScenarioIdentity(s))
    \/ /\ adminOps = 0
       /\ \E s \in sockets :
             StartGame(s, "111111", ScenarioIdentity(s))
    \/ \E id \in 1..MaxTimers : PhotoTimerFires(id)
    \/ \E id \in 1..MaxTimers : QuestionTimerFires(id)
    \/ \E s \in sockets : SubmitAnswer(s, CorrectAnswer, ScenarioIdentity(s))
    \/ /\ isStarted
       /\ AdvanceClock(FALSE)

AnyPhaseSpec == Init /\ [][AnyPhaseNext]_vars

\* RejoinSpec: during a question the admin and the players join, join again
\* on another socket and answer, and a socket that has joined as a player
\* disconnects at any time, before or after its player has joined again elsewhere
RejoinNext ==
    \/ Connect(QuestionSockets, QuestionConnected)
    \/ \E s \in sockets, n \in Names : JoinWaiting(s, "111111", n)
    \/ /\ currentPhase = "question"
       /\ \E s \in sockets, n \in PlayerEmails :
             SubmitAnswer(s, CorrectAnswer, n)
    \/ \E id \in 1..MaxTimers : QuestionTimerFires(id)
    \/ \E s \in sockets :
          /\ "waiting-room" \in rooms[s]
          /\ Disconnect(s)
    \/ AdvanceClock(FALSE)

RejoinSpec == QuestionInit /\ [][RejoinNext]_vars

\* StaleNewGameSpec: the admin asks for a new game once; while clearGameScores
\* is pending a socket sends reset-game, and after that reset a new session
\* token is issued, players join and the game is started again, before or
\* after the pending new-game applies its reset.  No token is revoked before
\* the new-game call, so that a revoked token tells of the reset made
\* meanwhile.
StaleNewGameNext ==
    \/ HttpNext({AdminEmail}, {"found"}, {"janvier 2020"}, Tokens, 1, 1)
    \/ Connect(SessionSockets, SessionSockets)
    \/ \E s \in sockets, t \in Tokens, n \in SessionNames :
          JoinWaiting(s, t, n)
    \/ /\ adminOps = 0
       /\ \E s \in sockets, t \in Tokens, n \in SessionNames :
             NewGameBegin(s, t, n)
    \/ /\ adminOps = 1
       /\ pendingNewGame # {}
       /\ \E s \in sockets : ResetGame(s)
    \/ /\ adminOps = 2
       /\ \E s \in sockets, t \in Tokens : StartGame(s, t, AdminEmail)
    \/ \E s \in sockets : NewGameFinish(s)

StaleNewGameSpec == Init /\ [][StaleNewGameNext]_vars

(***************************************************************************)
(* Claims                                                                  *)
(***************************************************************************)
\* C1: endQuestion runs at most once per question: between two question starts
\* (or a question start and a reset) no roster is scored a second time.
\* Stated for the games the admin has started once and never reset, where a
\* single photo interval and a single question interval exist
C1_EndQuestionOnce == adminOps <= 1 => questionScoring # "rescored"

\* C2: at any moment at most one photo interval and at most one question
\* interval is live, also after start-game has been accepted twice
C2_OneTimerPerKind ==
    \A kind \in {"photos", "question"} :
        Cardinality({iv \in intervals : iv.kind = kind}) <= 1

\* C3: when reset-game or new-game has run, no interval is live
C3_ResetLeavesNoTimer ==
    lastOp.op \in {"reset-game", "new-game-done"} => intervals = {}

\* C4: the phase changes only along WAITING -> PHOTOS, PHOTOS -> QUESTION,
\* QUESTION -> LEADERBOARD and, from any phase, back to WAITING
C4_PhaseEdges ==
    [][currentPhase' # currentPhase =>
          \/ currentPhase' = "waiting"
          \/ currentPhase = "waiting" /\ currentPhase' = "photos"
          \/ currentPhase = "photos" /\ currentPhase' = "question"
          \/ currentPhase = "question" /\ currentPhase' = "leaderboard"]_vars

\* C5: a photo interval ticks only while the phase is PHOTOS and a question
\* interval only while the phase is QUESTION
C5_TicksInPhase ==
    [][/\ lastOp'.op = "photo-timer" => currentPhase = "photos"
       /\ lastOp'.op = "question-timer" => currentPhase = "question"]_vars

\* C6: the game leaves WAITING for PHOTOS only by a start-game call that
\* carries a valid token and the admin identity, and then it is started, at
\* question 0, with 10 s of photos and a new photo interval; a start-game call
\* that fails either test changes neither the game state nor the timers and
\* sends start-game-error to the caller alone
C6_StartGameGuard ==
    [][/\ (currentPhase = "waiting" /\ currentPhase' = "photos") =>
             /\ lastOp'.op = "start-game"
             /\ lastOp'.token \in activeTokens
             /\ lastOp'.name = AdminEmail
             /\ isStarted'
             /\ currentQuestion' = 0
             /\ photoTimeLeft' = PhotoDuration
             /\ \E iv \in intervals' \ intervals :
                   iv.id = photoTimer' /\ iv.kind = "photos"
       /\ (/\ lastOp'.op = "start-game"
           /\ ~(lastOp'.token \in activeTokens /\ lastOp'.name = AdminEmail)) =>
             /\ UNCHANGED <<gameState, timerVars, activeTokens>>
             /\ Len(emitted') = 1
             /\ emitted'[1].ev = "start-game-error"
             /\ emitted'[1].to = ToSocket(lastOp'.socket)
             /\ emitted'[1].rcpt = {lastOp'.socket}]_vars

\* a start-game call with a valid token and the admin identity has just moved
\* the game from WAITING to PHOTOS
C6_GameStarted ==
    /\ lastOp.op = "start-game"
    /\ lastOp.token \in activeTokens
    /\ lastOp.name = AdminEmail
    /\ currentPhase = "photos"
    /\ photoTimeLeft = PhotoDuration
    /\ Cardinality(intervals) = 1

\* C7: once an answer and its latency are recorded for a player, a later
\* submit-answer for that player while the question runs changes nothing of
\* the roster, whatever the answers are
C7_FirstAnswerWins ==
    [][(/\ currentPhase = "question"
        /\ lastOp'.op = "submit-answer"
        /\ FindByName(players, lastOp'.name) # 0
        /\ players[FindByName(players, lastOp'.name)].currentAnswer # Null) =>
          players' = players]_vars

\* C8: during QUESTION the submit-answer that records the last missing answer
\* ends the question in the same step: the question timer is cancelled, the
\* phase is LEADERBOARD before the countdown has reached zero, and the roster
\* is scored exactly once, the answers being cleared
C8_AllAnsweredEndsQuestion ==
    [][(/\ currentPhase = "question"
        /\ lastOp'.op = "submit-answer"
        /\ FindByName(players, lastOp'.name) # 0
        /\ \A i \in 1..Len(players) :
              (players[i].currentAnswer = Null)
                  <=> (i = FindByName(players, lastOp'.name))) =>
          /\ currentPhase' = "leaderboard"
          /\ questionTimer' = NoTime
          /\ questionTimer \notin LiveIds(intervals')
          /\ questionTimeLeft' > 0
          /\ questionScoring = "open"
          /\ questionScoring' = "scored"
          /\ Len(players') = Len(players)
          /\ \A i \in 1..Len(players) :
                /\ players'[i].currentAnswer = Null
                /\ players'[i].score = players[i].score +
                      (IF i = FindByName(players, lastOp'.name)
                       THEN IF lastOp'.token = CorrectAnswer
                            THEN Max(0, MaxScore - (now - questionStartTime))
                            ELSE 0
                       ELSE IF players[i].currentAnswer = CorrectAnswer
                            THEN Max(0, MaxScore - players[i].answerTime)
                            ELSE 0)]_vars

\* the second of two players has answered some seconds into the question,
\* the question has ended and a player has scored
C8_LastAnswerIn ==
    /\ lastOp.op = "submit-answer"
    /\ currentPhase = "leaderboard"
    /\ Len(players) = 2
    /\ questionScoring = "scored"
    /\ questionTimeLeft \in 1..(QuestionDuration - 1)
    /\ intervals = {}
    /\ \E i \in 1..2 : players[i].score > 0

\* C9: when a disconnected player joins again with a valid token, the score
\* and the recorded answer are kept, the player is connected again and the
\* roster entry refers to the new socket
C9_RejoinKeepsPlayer ==
    [][(/\ lastOp'.op = "join-waiting"
        /\ lastOp'.token \in activeTokens
        /\ FindByName(players, lastOp'.name) # 0
        /\ ~players[FindByName(players, lastOp'.name)].isConnected) =>
          /\ FindByName(players', lastOp'.name) # 0
          /\ LET old == players[FindByName(players, lastOp'.name)]
                 new == players'[FindByName(players', lastOp'.name)]
             IN  /\ new.score = old.score
                 /\ new.currentAnswer = old.currentAnswer
                 /\ new.answerTime = old.answerTime
                 /\ new.isConnected
                 /\ new.socketId = lastOp'.socket]_vars

\* C10: reset-game and new-game leave no session token valid, and until a
\* token is issued again every call that checks it (/api/verify,
\* join-waiting, start-game, new-game, rejoin-admin-room, rejoin-waiting-room)
\* rejects it: 401 for /api/verify, nothing changed for the others
C10_ResetRevokesTokens ==
    [][/\ lastOp'.op \in {"reset-game", "new-game-done"} => activeTokens' = {}
       /\ (/\ lastOp'.op \in {"api-verify", "join-waiting", "start-game",
                              "new-game", "rejoin-admin-room",
                              "rejoin-waiting-room"}
           /\ lastOp'.token \in revokedTokens) =>
             /\ UNCHANGED <<gameState, timerVars, activeTokens, rooms,
                            pendingNewGame>>
             /\ lastOp'.op = "api-verify" =>
                   emitted' = HttpResponse(401, FALSE)
             /\ \A i \in 1..Len(emitted') :
                   emitted'[i].ev \in {"http-response", "start-game-error",
                                       "new-game-error"}]_vars

\* a call has just presented a token that a reset had revoked, while another
\* token is valid
C10_RevokedTokenPresented ==
    /\ lastOp.op \in {"join-waiting", "start-game", "new-game",
                      "rejoin-admin-room", "rejoin-waiting-room"}
    /\ lastOp.token \in revokedTokens
    /\ activeTokens # {}
    /\ adminOps > 0

\* C11: when reset-game has run, in whatever phase, the session state has its
\* initial value again (not started, WAITING, question 0, both countdowns 10,
\* no player, empty leaderboard, question start and end time null, no valid
\* token) and game-reset has gone to every connected socket
C11_ResetRestoresInitial ==
    lastOp.op = "reset-game" =>
        /\ ~isStarted
        /\ currentPhase = "waiting"
        /\ currentQuestion = 0
        /\ photoTimeLeft = PhotoDuration
        /\ questionTimeLeft = QuestionDuration
        /\ players = << >>
        /\ leaderboard = << >>
        /\ questionStartTime = NoTime
        /\ questionEndTime = NoTime
        /\ activeTokens = {}
        /\ Len(emitted) = 1
        /\ emitted[1].ev = "game-reset"
        /\ emitted[1].rcpt = sockets

\* C12: a reset-game or new-game call that does not carry a currently valid
\* token together with the admin identity changes neither the game state nor
\* the timers and revokes no token
C12_ResetOnlyByAdmin ==
    [][(/\ lastOp'.op \in {"reset-game", "new-game"}
        /\ ~(lastOp'.token \in activeTokens /\ lastOp'.name = AdminEmail)) =>
          UNCHANGED <<gameState, timerVars, activeTokens>>]_vars

\* C13: when a question ends, a player whose recorded answer is exactly the
\* correct text gets max(0, 10 - latency) points more (10 at latency 0, none
\* from latency 10 on), and the score of a player with another answer, or
\* with none, stays as it was
C13_Scoring ==
    [][(currentPhase = "question" /\ currentPhase' = "leaderboard") =>
          /\ Len(players') = Len(players)
          /\ \A i \in 1..Len(players) :
                LET submits == /\ lastOp'.op = "submit-answer"
                               /\ lastOp'.name = players[i].name
                    answer == IF submits THEN lastOp'.token
                              ELSE players[i].currentAnswer
                    latency == IF submits THEN now - questionStartTime
                               ELSE players[i].answerTime
                    gain == players'[i].score - players[i].score
                IN  /\ players'[i].name = players[i].name
                    /\ answer # CorrectAnswer => gain = 0
                    /\ answer = CorrectAnswer =>
                          /\ latency >= 0
                          /\ latency = 0 => gain = 10 * resolution
                          /\ latency >= 10 * resolution => gain = 0
                          /\ latency < 10 * resolution =>
                                gain = 10 * resolution - latency]_vars

\* a question has ended with one right answer given at once, worth 10 points,
\* and one given after 10 s, which left that player's 5 points as they were
C13_FastAndLate ==
    /\ currentPhase = "leaderboard"
    /\ \E i, j \in 1..Len(leaderboard) :
          /\ leaderboard[i].answerTime = 0
          /\ leaderboard[i].score = 10
          /\ leaderboard[j].answerTime = 10
          /\ leaderboard[j].score = 5

\* C14: the leaderboard a question end produces holds the entries collected
\* for it (the correct players, then the other connected ones), by descending
\* score; of two entries with the same score the one with the lower latency
\* comes first, and when their latencies are equal, or one has none, they
\* stay in the order in which they were collected. Entries (A, 5, 2.0),
\* (B, 5, 1.0), (C, 3, 0.5) come out as B, A, C.
C14_RankingOrder ==
    [][(currentPhase = "question" /\ currentPhase' = "leaderboard") =>
          LET k == IF lastOp'.op = "submit-answer"
                   THEN FindByName(players, lastOp'.name) ELSE 0
              ps == IF k = 0 THEN players
                    ELSE [players EXCEPT
                             ![k].currentAnswer = lastOp'.token,
                             ![k].answerTime = now - questionStartTime]
              lb == leaderboard'
          IN  \E collected \in
                    {AddConnected(Sort(CorrectPlayers(ps), FALSE),
                                  ScoredPlayers(ps), questionStartTime, now)} :
              LET At(e) == CHOOSE i \in 1..Len(collected) : collected[i] = e
              IN
              /\ Len(lb) = Len(collected)
              /\ \A i \in 1..Len(collected) :
                    \E j \in 1..Len(lb) : lb[j] = collected[i]
              /\ \A i, j \in 1..Len(lb) :
                    i < j =>
                       /\ lb[i].score >= lb[j].score
                       /\ lb[i].score = lb[j].score =>
                             IF /\ lb[i].answerTime # NoTime
                                /\ lb[j].answerTime # NoTime
                                /\ lb[i].answerTime # lb[j].answerTime
                             THEN lb[i].answerTime < lb[j].answerTime
                             ELSE At(lb[i]) < At(lb[j])
              /\ Sort(<< [name |-> "A", score |-> 5, answerTime |-> 200],
                         [name |-> "B", score |-> 5, answerTime |-> 100],
                         [name |-> "C", score |-> 3, answerTime |-> 50] >>,
                      TRUE)
                 = << [name |-> "B", score |-> 5, answerTime |-> 100],
                      [name |-> "A", score |-> 5, answerTime |-> 200],
                      [name |-> "C", score |-> 3, answerTime |-> 50] >>]_vars

\* a question has ended with two players on the same score, and the one that
\* joined later is ranked first for having answered faster
C14_FasterWinsTie ==
    /\ currentPhase = "leaderboard"
    /\ \E i \in 1..(Len(leaderboard) - 1) :
          /\ leaderboard[i].score = leaderboard[i + 1].score
          /\ leaderboard[i].answerTime # NoTime
          /\ leaderboard[i + 1].answerTime # NoTime
          /\ leaderboard[i].answerTime < leaderboard[i + 1].answerTime
          /\ FindByName(players, leaderboard[i].name)
                > FindByName(players, leaderboard[i + 1].name)

\* C15: when a question ends, no player whose isConnected flag is false has an
\* entry in the leaderboard, whatever that player answered, while a right
\* answer still adds its points to that player's score in the roster
C15_DisconnectedExcluded ==
    [][(currentPhase = "question" /\ currentPhase' = "leaderboard") =>
          \A i \in 1..Len(players) :
             ~players[i].isConnected =>
                /\ ~InLeaderboard(leaderboard', players[i].name)
                /\ (players[i].currentAnswer = CorrectAnswer
                    /\ players[i].answerTime < MaxScore * resolution) =>
                      players'[i].score = players[i].score
                         + MaxScore * resolution - players[i].answerTime]_vars

\* C16: when a question ends, every connected player without the right answer
\* has a leaderboard entry with score 0, whose latency is the latency of the
\* wrong answer given, or the time from question start to question end for a
\* player that gave none
C16_ZeroScoreEntries ==
    [][(currentPhase = "question" /\ currentPhase' = "leaderboard") =>
          \A i \in 1..Len(players) :
             LET submits == /\ lastOp'.op = "submit-answer"
                            /\ lastOp'.name = players[i].name
                            /\ NoAnswerYet(players[i])
                 answer == IF submits THEN lastOp'.token
                           ELSE players[i].currentAnswer
                 latency == IF submits THEN now - questionStartTime
                            ELSE players[i].answerTime
             IN  (players[i].isConnected /\ answer # CorrectAnswer) =>
                    \E j \in 1..Len(leaderboard') :
                       /\ leaderboard'[j].name = players[i].name
                       /\ leaderboard'[j].score = 0
                       /\ leaderboard'[j].answerTime =
                             IF answer = Null
                             THEN questionEndTime' - questionStartTime
                             ELSE latency]_vars

\* C17: when a question ends, the sockets of the admin room are sent the
\* leaderboard, and every player flagged connected is sent exactly one
\* player-game-ended, on the socket the roster holds for it, that carries the
\* 1-based position of its leaderboard entry, the score of that entry and the
\* number of entries; two players never get the same rank
C17_ResultFanOut ==
    [][(currentPhase = "question" /\ currentPhase' = "leaderboard") =>
          LET lb == leaderboard'
              Mine(i) == {k \in 1..Len(emitted') :
                             /\ emitted'[k].ev = "player-game-ended"
                             /\ emitted'[k].to = ToSocket(players'[i].socketId)
                             /\ emitted'[k].data.score
                                   = ScoreOf(lb, players'[i].name)
                             /\ emitted'[k].data.rank
                                   = RankOf(lb, players'[i].name)}
          IN  /\ \E k \in 1..Len(emitted') :
                    /\ emitted'[k].ev = "admin-game-ended"
                    /\ emitted'[k].data = [leaderboard |-> lb]
                    /\ emitted'[k].rcpt
                          = {s \in sockets : "admin" \in rooms[s]}
              /\ \A i \in 1..Len(players') :
                    players'[i].isConnected =>
                       /\ Mine(i) # {}
                       /\ \A k \in Mine(i) :
                             LET d == emitted'[k].data
                             IN  /\ emitted'[k].rcpt = {players'[i].socketId}
                                 /\ d.rank \in 1..Len(lb)
                                 /\ lb[d.rank].name = players'[i].name
                                 /\ d.score = lb[d.rank].score
                                 /\ d.totalPlayers = Len(lb)
              /\ Cardinality({k \in 1..Len(emitted') :
                                 emitted'[k].ev = "player-game-ended"})
                    = Cardinality({i \in 1..Len(players') :
                                      players'[i].isConnected})]_vars

\* C18: two players have joined, the admin has started the game and the
\* photos have run their 10 s; the first player has answered the right text
\* 2.00 s into the question and the second now answers a wrong text at
\* 4.50 s. That answer ends the question; the leaderboard is the first player
\* with 8 points, then the second with 0; the admin is sent both entries, the
\* first player {rank 1, score 8, totalPlayers 2} and the second
\* {rank 2, score 0, totalPlayers 2}. Times and points are in halves.
C18_TwoPlayerGame ==
    [][(/\ currentPhase = "question"
        /\ questionScoring = "open"
        /\ lastOp'.op = "submit-answer"
        /\ lastOp'.socket = 3
        /\ lastOp'.name = "marc.bonnet@databricks.com"
        /\ lastOp'.token = "Echantons"
        /\ now - questionStartTime = 9
        /\ resolution = HalfSeconds
        /\ {1, 2, 3} \subseteq sockets
        /\ "admin" \in rooms[1]
        /\ Len(players) = 2
        /\ \E a, b \in 1..2 :
              /\ players[a] = [name |-> "paul.r@dbks.fr", score |-> 0,
                               currentAnswer |-> CorrectAnswer,
                               answerTime |-> 4, isConnected |-> TRUE,
                               socketId |-> 2]
              /\ players[b] = [name |-> "marc.bonnet@databricks.com",
                               score |-> 0, currentAnswer |-> Null,
                               answerTime |-> NoTime, isConnected |-> TRUE,
                               socketId |-> 3])
       =>
       /\ currentPhase' = "leaderboard"
       /\ questionEndTime' = now
       /\ leaderboard' = << [name |-> "paul.r@dbks.fr", score |-> 16,
                             answerTime |-> 4],
                            [name |-> "marc.bonnet@databricks.com",
                             score |-> 0, answerTime |-> 9] >>
       /\ \E k \in 1..Len(emitted') :
             /\ emitted'[k].ev = "admin-game-ended"
             /\ 1 \in emitted'[k].rcpt
             /\ emitted'[k].data = [leaderboard |-> leaderboard']
       /\ \A s \in {2, 3} :
             LET got == {k \in 1..Len(emitted') :
                            /\ emitted'[k].ev = "player-game-ended"
                            /\ s \in emitted'[k].rcpt}
             IN  /\ Cardinality(got) = 1
                 /\ \A k \in got :
                       emitted'[k].data =
                          [rank |-> s - 1,
                           score |-> IF s = 2 THEN 16 ELSE 0,
                           totalPlayers |-> 2]]_vars

\* the game of the scenario has been played: the question started when the
\* photos had run 10 s, and the second player's wrong answer 4.50 s later has
\* ended it with the first player on 8 points (16 halves)
C18_GamePlayed ==
    /\ currentPhase = "leaderboard"
    /\ questionScoring = "scored"
    /\ lastOp = Op("submit-answer", 3, "Echantons",
                   "marc.bonnet@databricks.com")
    /\ questionStartTime = (Epoch + PhotoDuration) * HalfSeconds
    /\ questionEndTime = questionStartTime + 9
    /\ "admin" \in rooms[1]
    /\ Len(leaderboard) = 2
    /\ leaderboard[1] = [name |-> "paul.r@dbks.fr", score |-> 16,
                         answerTime |-> 4]
    /\ leaderboard[2].name = "marc.bonnet@databricks.com"

\* C19: no event that carries the leaderboard (every player's name, score
\* and latency) is delivered to a socket outside the admin room; such a socket
\* is only sent its own rank, score and the number of entries
C19_PlayersSeeOwnResultOnly ==
    \A k \in 1..Len(emitted) :
       emitted[k].ev \in {"admin-game-ended", "admin-game-ended-fallback",
                          "player-game-ended-fallback", "leaderboard-update"}
          => \A s \in emitted[k].rcpt : "admin" \in rooms[s]

\* C20: a start-chatbot or send-chatbot-message from a socket that is not in
\* the admin room when the call is handled sends nothing to the Genie API,
\* starts no request and emits one chatbot-error, to that socket only; a call
\* from a socket of the admin room is forwarded; and every chatbot-started,
\* chatbot-response and chatbot-error is emitted to the calling socket and
\* reaches no other
C20_ChatAdminOnly ==
    [][/\ (lastOp'.op \in {"start-chatbot", "send-chatbot-message"}
           /\ "admin" \notin rooms[lastOp'.socket])
          => /\ pendingChat' = pendingChat
             /\ Len(emitted') = 1
             /\ emitted'[1].ev = "chatbot-error"
             /\ emitted'[1].to = ToSocket(lastOp'.socket)
             /\ emitted'[1].rcpt = {lastOp'.socket}
       /\ (lastOp'.op \in {"start-chatbot", "send-chatbot-message"}
           /\ "admin" \in rooms[lastOp'.socket])
          => /\ \E k \in 1..Len(emitted') : emitted'[k].ev = "genie-request"
             /\ \A k \in 1..Len(emitted') : emitted'[k].ev # "chatbot-error"
       /\ \A k \in 1..Len(emitted') :
             emitted'[k].ev \in {"chatbot-started", "chatbot-response",
                                 "chatbot-error"}
                => /\ emitted'[k].to = ToSocket(lastOp'.socket)
                   /\ emitted'[k].rcpt \subseteq {lastOp'.socket}
                   /\ lastOp'.op \in {"start-chatbot", "start-chatbot-done",
                                      "send-chatbot-message",
                                      "send-chatbot-message-sent",
                                      "send-chatbot-message-tested",
                                      "send-chatbot-message-polled"}]_vars

\* a player's socket, in the waiting room only, has just called the chatbot
\* and was refused, while a request of an admin socket is with the Genie API
C20_PlayerRefused ==
    /\ lastOp.op = "send-chatbot-message"
    /\ rooms[lastOp.socket] = {"waiting-room"}
    /\ Len(emitted) = 1
    /\ emitted[1].ev = "chatbot-error"
    /\ emitted[1].rcpt = {lastOp.socket}
    /\ \E req \in pendingChat :
          /\ req.socket # lastOp.socket
          /\ "admin" \in rooms[req.socket]

\* C21: a socket enters the admin room only by a join-waiting or a
\* rejoin-admin-room of its own that presents a valid token and the admin
\* identity, so only such a socket can have a question forwarded to the Genie
\* API or be sent the events of the admin room
C21_AdminRoomNeedsToken ==
    [][\A s \in 1..SocketIds :
          ("admin" \in rooms'[s] /\ "admin" \notin rooms[s]) =>
             /\ lastOp'.op \in {"join-waiting", "rejoin-admin-room"}
             /\ lastOp'.socket = s
             /\ lastOp'.token \in activeTokens
             /\ lastOp'.name = AdminEmail]_vars

\* C22 as stated: a forwarded send-chatbot-message polls at most 20 times;
\* a poll that gives COMPLETED, FAILED or CANCELLED ends it at once with that
\* result, any other poll (PENDING or a thrown error) is followed by another
\* poll, or by the timeout notice when it was the 20th; these are the only
\* results; and the handler always ends with a chatbot-response to the caller
C22_PollingAsStated ==
    /\ [][lastOp'.op \in {"send-chatbot-message-tested",
                          "send-chatbot-message-polled"} =>
            \E req \in pendingChat :
               LET polled == lastOp'.op = "send-chatbot-message-polled"
                   outcome == lastOp'.token
                   Answered(kinds) ==
                      /\ pendingChat' = pendingChat \ {req}
                      /\ Len(emitted') = 1
                      /\ emitted'[1].ev = "chatbot-response"
                      /\ emitted'[1].to = ToSocket(req.socket)
                      /\ emitted'[1].data.kind \in kinds
                   GoesOn(next) ==
                      /\ pendingChat' = (pendingChat \ {req}) \cup {next}
                      /\ \A k \in 1..Len(emitted') :
                            emitted'[k].ev = "genie-request"
               IN  /\ req.socket = lastOp'.socket
                   /\ req.stage = IF polled THEN "poll" ELSE "test"
                   /\ req.attempt + 1 <= maxAttempts
                   /\ IF ~polled
                      THEN GoesOn([req EXCEPT !.stage = "poll"])
                      ELSE IF outcome \in {"COMPLETED", "FAILED", "CANCELLED"}
                      THEN Answered({"answer", "failed", "cancelled"})
                      ELSE IF req.attempt + 1 < maxAttempts
                      THEN GoesOn([req EXCEPT !.attempt = @ + 1])
                      ELSE Answered({"timeout"})]_vars
    /\ \A s \in 1..PollSockets :
          (\E req \in pendingChat : req.socket = s)
             ~> (\E k \in 1..Len(emitted) :
                    /\ emitted[k].ev = "chatbot-response"
                    /\ emitted[k].to = ToSocket(s)
                    /\ \A req \in pendingChat : req.socket # s)

\* C22, amended: as stated, except that the polling also ends at once, with
\* a permission notice as its result, when the permission test made before
\* the first poll fails (no poll is made) and when a poll throws an error of
\* HTTP status 403
C22_PollingTerminates ==
    /\ [][lastOp'.op \in {"send-chatbot-message-tested",
                          "send-chatbot-message-polled"} =>
            \E req \in pendingChat :
               LET polled == lastOp'.op = "send-chatbot-message-polled"
                   outcome == lastOp'.token
                   Answered(kinds) ==
                      /\ pendingChat' = pendingChat \ {req}
                      /\ Len(emitted') = 1
                      /\ emitted'[1].ev = "chatbot-response"
                      /\ emitted'[1].to = ToSocket(req.socket)
                      /\ emitted'[1].data.kind \in kinds
                   GoesOn(next) ==
                      /\ pendingChat' = (pendingChat \ {req}) \cup {next}
                      /\ \A k \in 1..Len(emitted') :
                            emitted'[k].ev = "genie-request"
               IN  /\ req.socket = lastOp'.socket
                   /\ req.stage = IF polled THEN "poll" ELSE "test"
                   /\ req.attempt + 1 <= maxAttempts
                   /\ IF ~polled
                      THEN IF outcome = "denied"
                           THEN /\ req.attempt = 0
                                /\ Answered({"permission-test-failed"})
                           ELSE GoesOn([req EXCEPT !.stage = "poll"])
                      ELSE IF outcome \in {"COMPLETED", "FAILED", "CANCELLED"}
                      THEN Answered({"answer", "failed", "cancelled"})
                      ELSE IF outcome = "forbidden"
                      THEN Answered({"permission-error"})
                      ELSE IF req.attempt + 1 < maxAttempts
                      THEN GoesOn([req EXCEPT !.attempt = @ + 1])
                      ELSE Answered({"timeout"})]_vars
    /\ \A s \in 1..PollSockets :
          (\E req \in pendingChat : req.socket = s)
             ~> (\E k \in 1..Len(emitted) :
                    /\ emitted[k].ev = "chatbot-response"
                    /\ emitted[k].to = ToSocket(s)
                    /\ \A req \in pendingChat : req.socket # s)

\* the 20th poll of a message has just come back PENDING, and the timeout
\* notice has been sent to the caller
C22_BudgetExhausted ==
    /\ lastOp.op = "send-chatbot-message-polled"
    /\ lastOp.token = "PENDING"
    /\ Len(emitted) = 1
    /\ emitted[1].ev = "chatbot-response"
    /\ emitted[1].data.kind = "timeout"
    /\ emitted[1].rcpt = {lastOp.socket}

\* C23: when a saveQuizResults call settles, with success or with failure, at
\* once or after a reset, nothing of the game changes (phase, roster and
\* scores, leaderboard, tokens, timers, rooms) and nothing is emitted; and
\* what a question end emits does not depend on calls still in flight
C23_SinkFireAndForget ==
    [][/\ lastOp'.op = "save-quiz-results-done" =>
             /\ UNCHANGED <<gameState, activeTokens, timerVars, connVars>>
             /\ emitted' = << >>
       /\ (currentPhase = "question" /\ currentPhase' = "leaderboard") =>
             \E n \in 1..2 :
                SubSeq(emitted', n + 1, Len(emitted'))
                   = EndQuestionEvents(players', leaderboard', sockets,
                                       rooms)]_vars

\* the sink has just reported a failure for results of a game that has been
\* reset in the meantime
C23_LateFailure ==
    /\ lastOp.op = "save-quiz-results-done"
    /\ lastOp.token = "failed"
    /\ currentPhase = "waiting"
    /\ adminOps = 2
    /\ leaderboard = << >>

\* C24: in what a question end does, the saveQuizResults call comes after
\* admin-game-ended and after every player-game-ended
C24_BroadcastBeforeSink ==
    \A k \in 1..Len(emitted) :
       emitted[k].ev = "saveQuizResults" =>
          /\ \E j \in 1..(k - 1) : emitted[j].ev = "admin-game-ended"
          /\ \A j \in (k + 1)..Len(emitted) :
                emitted[j].ev \notin {"admin-game-ended", "player-game-ended"}

\* C25: while time passes and the question interval fires when due, a question
\* phase always comes to an end, whatever joins, disconnections and answers
\* happen meanwhile
C25_QuestionEnds == (currentPhase = "question") ~> (currentPhase # "question")

\* the countdown has ended a question that a player had not answered
C25_EndedByCountdown ==
    /\ currentPhase = "leaderboard"
    /\ lastOp.op = "question-timer"
    /\ questionEndTime = questionStartTime + QuestionDuration * resolution
    /\ players # << >>

\* C26: a new-game with a valid token and the admin identity first calls
\* clearGameScores and emits nothing else; game-reset is emitted, to every
\* socket, only when that call has settled, and then the phase is WAITING,
\* the roster, the leaderboard and the token set are empty and no timer is
\* live, whatever was handled meanwhile; a new-game without a valid token or
\* the admin identity changes nothing and emits new-game-error to the caller
C26_NewGame ==
    [][/\ lastOp'.op = "new-game" =>
             IF lastOp'.token \in activeTokens /\ lastOp'.name = AdminEmail
             THEN /\ Len(emitted') = 1
                  /\ emitted'[1].ev = "clearGameScores"
                  /\ UNCHANGED <<gameState, activeTokens, timerVars>>
             ELSE /\ Len(emitted') = 1
                  /\ emitted'[1].ev = "new-game-error"
                  /\ emitted'[1].to = ToSocket(lastOp'.socket)
                  /\ UNCHANGED <<gameState, activeTokens, timerVars,
                                 pendingNewGame>>
       /\ lastOp'.op = "new-game-done" =>
             /\ lastOp'.socket \in pendingNewGame
             /\ Len(emitted') = 1
             /\ emitted'[1].ev = "game-reset"
             /\ emitted'[1].rcpt = sockets
             /\ ~isStarted'
             /\ currentPhase' = "waiting"
             /\ players' = << >>
             /\ leaderboard' = << >>
             /\ activeTokens' = {}
             /\ intervals' = {}]_vars

\* C27: a join-waiting, rejoin-admin-room, rejoin-waiting-room, start-game or
\* new-game call whose token is not a valid session token, or, for the three
\* admin calls, whose identity is not the admin's, emits an error event, to
\* the caller only, and changes neither the game, the tokens, the rooms nor
\* the timers
AdminOnlyCalls == {"rejoin-admin-room", "start-game", "new-game"}

TokenCheckedCalls == AdminOnlyCalls \cup {"join-waiting", "rejoin-waiting-room"}

C27_AuthFailureSurfaced ==
    [][(/\ lastOp'.op \in TokenCheckedCalls
        /\ \/ lastOp'.token \notin activeTokens
           \/ lastOp'.op \in AdminOnlyCalls /\ lastOp'.name # AdminEmail)
       => /\ emitted' # << >>
          /\ \A i \in 1..Len(emitted') :
                emitted'[i].to = ToSocket(lastOp'.socket)
          /\ UNCHANGED <<gameState, activeTokens, rooms, timerVars,
                         pendingNewGame>>]_vars

\* C28: POST /api/token never answers with a session token that is already in
\* the set of valid tokens, so each token issued makes the set one larger
C28_IssuedTokenFresh ==
    [][(lastOp'.op = "api-token-done" /\ emitted'[1].data.status = 200)
       => /\ emitted'[1].data.body \notin activeTokens
          /\ Cardinality(activeTokens') = Cardinality(activeTokens) + 1]_vars

\* C29: the set of valid session tokens grows only when a POST /api/token
\* settles whose temporary credential was in the temporary store when it was
\* presented and whose email and period validateEmployeeStartMonthYear
\* accepts; a call with an unknown temporary credential is answered 400 and a
\* call with a rejected period 403, and both leave the tokens and the
\* temporary store as they were
C29_TokenOnlyOnMatch ==
    [][/\ ~(activeTokens' \subseteq activeTokens) =>
             /\ lastOp'.op = "api-token-done"
             /\ \E req \in pendingToken \ pendingToken' :
                   /\ req.email # Null
                   /\ validateEmployeeStartMonthYear(req.email, req.monthYear,
                                                     lastOp'.db)
       /\ lastOp'.op = "api-token" =>
             IF tempUserStore[lastOp'.token] = Null
             THEN /\ emitted'[1].data.status = 400
                  /\ UNCHANGED <<activeTokens, tempUserStore, pendingToken>>
             ELSE /\ UNCHANGED <<activeTokens, tempUserStore>>
                  /\ \A req \in pendingToken' \ pendingToken :
                        req.email = tempUserStore[lastOp'.token]
       /\ (/\ lastOp'.op = "api-token-done"
           /\ \E req \in pendingToken \ pendingToken' :
                 ~validateEmployeeStartMonthYear(req.email, req.monthYear,
                                                 lastOp'.db))
          => /\ emitted'[1].data.status = 403
             /\ UNCHANGED <<activeTokens, tempUserStore>>]_vars

\* a token was issued on a match with the mock database, and a later call
\* with the wrong period has just been refused, its credential still stored
C29_RefusedAfterIssue ==
    /\ activeTokens # {}
    /\ lastOp.op = "api-token-done"
    /\ lastOp.db = "unconfigured"
    /\ emitted[1].data.status = 403
    /\ tempUserStore[lastOp.token] # Null

\* C30: a submit-answer made while another player of the roster, connected
\* or not, has no recorded answer only records the answer: the phase, the
\* question timer, the leaderboard and the scores are left alone; and while
\* a player has no recorded answer the question phase is left only by the
\* question timer's callback bringing the countdown to zero
C30_AllAnsweredCountsEveryone ==
    [][\A i \in 1..Len(players) :
          (/\ players[i].currentAnswer = Null
           /\ ~(/\ lastOp'.op = "submit-answer"
                /\ i = FindByName(players, lastOp'.name))) =>
             /\ lastOp'.op = "submit-answer" =>
                   /\ UNCHANGED <<currentPhase, leaderboard, questionTimer,
                                  intervals, questionEndTime, questionScoring,
                                  pendingSave>>
                   /\ \A k \in 1..Len(emitted') :
                         emitted'[k].ev = "answer-submitted"
                   /\ \A k \in 1..Len(players) :
                         players'[k].score = players[k].score
             /\ (currentPhase = "question" /\ currentPhase' # "question") =>
                   /\ lastOp'.op = "question-timer"
                   /\ questionTimeLeft' <= 0]_vars

\* a connected player has just answered while the other player, who has
\* left, has no recorded answer: the question goes on
C30_WaitingForAbsentPlayer ==
    /\ lastOp.op = "submit-answer"
    /\ currentPhase = "question"
    /\ Len(players) = 2
    /\ \E i, j \in 1..2 :
          /\ players[i].isConnected /\ players[i].currentAnswer \notin {Null, ""}
          /\ ~players[j].isConnected /\ players[j].currentAnswer = Null

\* C31: in the state right after the phase has become QUESTION every player
\* of the roster has no current answer and no answer time, whatever was
\* handled before
C31_AnswersResetAtQuestionStart ==
    [][(currentPhase # "question" /\ currentPhase' = "question") =>
          \A i \in 1..Len(players') :
             /\ players'[i].currentAnswer = Null
             /\ players'[i].answerTime = NoTime]_vars

\* C33: a submit-answer handled while the phase is WAITING, PHOTOS or
\* LEADERBOARD leaves every player's answer, answer time and score as they
\* were, scores nothing and leaves the phase alone
C33_AnswerOnlyInQuestion ==
    [][(lastOp'.op = "submit-answer" /\ currentPhase # "question") =>
          UNCHANGED <<players, leaderboard, currentPhase, questionScoring,
                      questionEndTime, pendingSave>>]_vars

\* C32: a submit-answer whose identity names no player of the roster, and a
\* disconnect of a socket that is no player's socket, leave the roster, the
\* game state, the timers and the tokens as they were and emit nothing
C32_UnknownIsNoOp ==
    [][(\/ /\ lastOp'.op = "submit-answer"
           /\ \A i \in 1..Len(players) : players[i].name # lastOp'.name
        \/ /\ lastOp'.op = "disconnect"
           /\ \A i \in 1..Len(players) :
                 players[i].socketId # lastOp'.socket) =>
          /\ emitted' = << >>
          /\ UNCHANGED <<gameState, timerVars, activeTokens, questionScoring,
                         pendingSave>>]_vars

\* a socket has just sent submit-answer under an identity that is not in the
\* roster while another player is, and nothing was emitted
C32_StrangerAnswered ==
    /\ lastOp.op = "submit-answer"
    /\ Len(players) > 0
    /\ \A i \in 1..Len(players) :
          players[i].name # lastOp.name /\ players[i].currentAnswer = Null
    /\ emitted = << >>

\* C34: in every reachable state isStarted is true exactly when the phase is
\* PHOTOS, QUESTION or LEADERBOARD, and the leaderboard is empty while the
\* phase is WAITING
C34_StartedIffPlaying ==
    /\ isStarted <=> currentPhase \in {"photos", "question", "leaderboard"}
    /\ currentPhase = "waiting" => leaderboard = << >>

\* C35: photoTimeLeft and questionTimeLeft stay within 0..10; every tick of a
\* countdown sends a timer-update carrying one less than the countdown stood
\* at, and the phase changes on exactly the tick that brings it to 0
C35_CountdownsInRange ==
    [][/\ photoTimeLeft' \in 0..PhotoDuration
       /\ questionTimeLeft' \in 0..QuestionDuration
       /\ lastOp'.op = "photo-timer" =>
             /\ emitted'[1].ev = "timer-update"
             /\ emitted'[1].data.timeLeft = photoTimeLeft - 1
             /\ (currentPhase' # currentPhase) <=> (photoTimeLeft' = 0)
       /\ lastOp'.op = "question-timer" =>
             /\ emitted'[1].ev = "timer-update"
             /\ emitted'[1].data.timeLeft = questionTimeLeft - 1
             /\ (currentPhase' # currentPhase) <=> (questionTimeLeft' = 0)]_vars

\* C36: a temporary credential is used once: a POST /api/token that issues a
\* session token finds its temporary credential still in the temporary store,
\* from which the issue removes it, also when two requests with the same
\* credential were pending together
C36_TempTokenSingleUse ==
    [][(lastOp'.op = "api-token-done" /\ emitted'[1].data.status = 200) =>
          /\ tempUserStore[lastOp'.token] # Null
          /\ tempUserStore'[lastOp'.token] = Null]_vars

\* C37: every player flagged connected refers to a socket that is connected:
\* once a socket has disconnected no player with that socketId is still
\* flagged connected, also when the socket joined under several identities
C37_ConnectedMeansSocket ==
    \A i \in 1..Len(players) :
        players[i].isConnected => players[i].socketId \in sockets

\* C38: the disconnect of a socket leaves every player whose socketId is
\* another socket as it was, so a player who has joined again on a second
\* socket stays connected on it when the first one disconnects; and when no
\* player refers to the socket that disconnects no player-left is emitted
C38_StaleDisconnectHarmless ==
    [][lastOp'.op = "disconnect" =>
          /\ Len(players') = Len(players)
          /\ \A i \in 1..Len(players) :
                players[i].socketId # lastOp'.socket =>
                   players'[i] = players[i]
          /\ (\A i \in 1..Len(players) :
                 players[i].socketId # lastOp'.socket) =>
                emitted' = << >>]_vars

\* the only player of the roster joined on one socket and again on a later
\* one, the earlier socket has just disconnected, and the player is still
\* connected on the later socket
C38_OldSocketGone ==
    /\ lastOp.op = "disconnect"
    /\ Len(players) = 1
    /\ players[1].isConnected
    /\ players[1].socketId \in sockets
    /\ lastOp.socket < players[1].socketId
    /\ emitted = << >>

\* C39: the admin identity is never in the roster nor in the leaderboard, no
\* name is twice in the leaderboard and every name in it is a player's; and
\* when endQuestion has run, every player that was connected has exactly one
\* entry
C39_LeaderboardWellFormed ==
    [][/\ \A i \in 1..Len(players') : players'[i].name # AdminEmail
       /\ \A i \in 1..Len(leaderboard') :
             /\ leaderboard'[i].name # AdminEmail
             /\ \E k \in 1..Len(players') :
                   players'[k].name = leaderboard'[i].name
             /\ \A j \in 1..Len(leaderboard') :
                   leaderboard'[j].name = leaderboard'[i].name => j = i
       /\ (\E e \in 1..Len(emitted') : emitted'[e].ev = "saveQuizResults") =>
             \A k \in 1..Len(players') :
                players'[k].isConnected =>
                   Cardinality({i \in 1..Len(leaderboard') :
                                   leaderboard'[i].name = players'[k].name})
                      = 1]_vars

\* a question has ended with two players in the leaderboard, one of whom
\* scored, while the admin has joined too
C39_TwoListed ==
    /\ \E e \in 1..Len(emitted) : emitted[e].ev = "saveQuizResults"
    /\ Len(players) = 2
    /\ Len(leaderboard) = 2
    /\ leaderboard[1].score > 0
    /\ \E s \in sockets : "admin" \in rooms[s]

\* C40: when the token of the new-game call has been revoked by a reset-game
\* handled while clearGameScores was pending, the new-game that resumes
\* leaves the players, the tokens, the timers and the game state, all made
\* after that reset, as they are
C40_StaleNewGameSpares ==
    [][(lastOp'.op = "new-game-done" /\ revokedTokens # {}) =>
          UNCHANGED <<gameState, activeTokens, timerVars>>]_vars

====
